---- MODULE Spec2Model ----
(***************************************************************************)
(* String Analyzer (src/app.py): the per-inverter performance analysis     *)
(* (ratio kWh/kWc, top/bottom ranking, suspect-string alerts, monthly      *)
(* evolution), the label ordering trier_strings_par_numero, the global     *)
(* study (date window, irradiance alignment, theoretical power) and the    *)
(* session (uploads, "Valider", pages).                                    *)
(*                                                                         *)
(* Numbers.  The program computes in float64.  A float is modelled by an   *)
(* exact fraction [n, d]: d > 0 is the finite value n/d in lowest terms,   *)
(* d = 0 is a non-finite value: n = 1 is +inf, n = -1 is -inf, n = 0 is    *)
(* NaN.  Rounding error of float64 is not modelled.  A standard deviation  *)
(* is carried as its square (the variance), and a comparison against       *)
(* mean - k*std is decided on the squares.                                 *)
(***************************************************************************)
EXTENDS Integers, Sequences, FiniteSets

(***************************************************************************)
(* Bounds of the model.                                                    *)
(***************************************************************************)
\* strings (columns) of the inverter file in the suspect-analysis runs
MaxStrings == 3
\* strings of the inverter file in the ranking runs
MaxClasses == 4
\* labels in a list handed to trier_strings_par_numero
MaxLabels == 3
\* samples of the inverter file in the runs over several days
MaxSamples == 3
\* days of a month in the calendar of the model
JoursParMois == 2

(***************************************************************************)
(* float64 as exact fractions                                              *)
(***************************************************************************)
Abs(i) == IF i < 0 THEN -i ELSE i

Sign(i) == IF i < 0 THEN -1 ELSE IF i > 0 THEN 1 ELSE 0

RECURSIVE GCD(_, _)
GCD(a, b) == IF b = 0 THEN a ELSE GCD(b, a % b)

\* the float n/d, reduced; d = 0 gives inf, -inf or NaN by the sign of n
F(n, d) ==
    IF d = 0 THEN [n |-> Sign(n), d |-> 0]
    ELSE LET g == GCD(Abs(n), Abs(d))
             s == IF d < 0 THEN -1 ELSE 1
         IN  [n |-> (s * n) \div g, d |-> (s * d) \div g]

NaN == [n |-> 0, d |-> 0]

IsNaN(x) == x.d = 0 /\ x.n = 0

IsFinite(x) == x.d > 0

FAdd(x, y) ==
    IF IsNaN(x) \/ IsNaN(y) THEN NaN
    ELSE IF x.d = 0 /\ y.d = 0 THEN (IF x.n = y.n THEN x ELSE NaN)
    ELSE IF x.d = 0 THEN x
    ELSE IF y.d = 0 THEN y
    ELSE F(x.n * y.d + y.n * x.d, x.d * y.d)

FNeg(x) == [n |-> -x.n, d |-> x.d]

FSub(x, y) == FAdd(x, FNeg(y))

FMul(x, y) ==
    IF IsNaN(x) \/ IsNaN(y) THEN NaN
    ELSE IF x.d = 0 \/ y.d = 0
         THEN [n |-> Sign(x.n) * Sign(y.n), d |-> 0]
    ELSE F(x.n * y.n, x.d * y.d)

\* numpy's float division: x/0 is inf, -inf or NaN, never an exception
FDiv(x, y) ==
    IF IsNaN(x) \/ IsNaN(y) THEN NaN
    ELSE IF x.d = 0 /\ y.d = 0 THEN NaN
    ELSE IF x.d = 0 THEN [n |-> x.n * (IF y.n < 0 THEN -1 ELSE 1), d |-> 0]
    ELSE IF y.d = 0 THEN F(0, 1)
    ELSE IF y.n = 0 THEN [n |-> Sign(x.n), d |-> 0]
    ELSE F(x.n * y.d, x.d * y.n)

FAbs(x) == [n |-> Abs(x.n), d |-> x.d]

\* x < y in float64: False as soon as one side is NaN
FLt(x, y) ==
    /\ ~IsNaN(x)
    /\ ~IsNaN(y)
    /\ IF x.d = 0 /\ y.d = 0 THEN x.n < y.n
       ELSE IF x.d = 0 THEN x.n < 0
       ELSE IF y.d = 0 THEN y.n > 0
       ELSE x.n * y.d < y.n * x.d

FLe(x, y) == ~IsNaN(x) /\ ~IsNaN(y) /\ ~FLt(y, x)

\* Series.sum(): NaN cells are skipped; the sum of nothing is 0
RECURSIVE FSum(_)
FSum(s) ==
    IF s = <<>> THEN F(0, 1)
    ELSE IF IsNaN(Head(s)) THEN FSum(Tail(s))
    ELSE FAdd(Head(s), FSum(Tail(s)))

RECURSIVE CountValid(_)
CountValid(s) ==
    IF s = <<>> THEN 0
    ELSE (IF IsNaN(Head(s)) THEN 0 ELSE 1) + CountValid(Tail(s))

\* Series.mean(): over the non-NaN cells; NaN when there is none
FMean(s) ==
    IF CountValid(s) = 0 THEN NaN
    ELSE FDiv(FSum(s), F(CountValid(s), 1))

\* the delta degrees of freedom of Series.std()
Ddof == 1

\* the mutant of the deviation: the population variance (ddof = 0)
FVarPopulation(s) ==
    IF CountValid(s) = 0 THEN NaN
    ELSE LET m == FMean(s)
             sq == [i \in 1..Len(s) |->
                      IF IsNaN(s[i]) THEN NaN
                      ELSE FMul(FSub(s[i], m), FSub(s[i], m))]
         IN  FDiv(FSum(sq), F(CountValid(s), 1))

\* the square of Series.std(): sample variance over the non-NaN cells,
\* NaN when fewer than two cells are left
FVar(s) ==
    IF CountValid(s) <= Ddof THEN NaN
    ELSE LET m == FMean(s)
             sq == [i \in 1..Len(s) |->
                      IF IsNaN(s[i]) THEN NaN
                      ELSE FMul(FSub(s[i], m), FSub(s[i], m))]
         IN  FDiv(FSum(sq), F(CountValid(s) - Ddof, 1))

(***************************************************************************)
(* Labels.  A label is the sequence of its characters, so that the digits  *)
(* trier_strings_par_numero reads are the digits the formatting wrote.     *)
(***************************************************************************)
Chiffres == <<"0", "1", "2", "3", "4", "5", "6", "7", "8", "9">>

EstChiffre(c) == \E i \in 1..10 : Chiffres[i] = c

ValeurChiffre(c) == (CHOOSE i \in 1..10 : Chiffres[i] = c) - 1

\* str(i) of a non-negative integer
RECURSIVE StrInt(_)
StrInt(i) ==
    IF i < 10 THEN <<Chiffres[i + 1]>>
    ELSE StrInt(i \div 10) \o <<Chiffres[(i % 10) + 1]>>

\* f"string {i}"
StringLabel(i) == <<"s", "t", "r", "i", "n", "g", " ">> \o StrInt(i)

TotalLabel == <<"t", "o", "t", "a", "l">>

\* int(...) of a run of digits
RECURSIVE IntStr(_)
IntStr(s) ==
    IF s = <<>> THEN 0
    ELSE 10 * IntStr(SubSeq(s, 1, Len(s) - 1)) + ValeurChiffre(s[Len(s)])

\* re.search(r"\d+", s): the leftmost run of digits, as long as it goes;
\* the key is that number, or float('inf') when the label has no digit
extract_num(s) ==
    LET pos == {i \in 1..Len(s) : EstChiffre(s[i])}
    IN  IF pos = {} THEN [inf |-> TRUE, v |-> 0]
        ELSE LET a == CHOOSE i \in pos : \A j \in pos : i <= j
                 b == CHOOSE i \in a..Len(s) :
                        /\ \A j \in a..i : EstChiffre(s[j])
                        /\ (i = Len(s) \/ ~EstChiffre(s[i + 1]))
             IN  [inf |-> FALSE, v |-> IntStr(SubSeq(s, a, b))]

\* key a < key b, for an int or float('inf')
CleLt(a, b) == ~a.inf /\ (b.inf \/ a.v < b.v)

\* one step of a stable sort: x, which came after every element of t,
\* goes before the first element whose key is strictly greater
RECURSIVE InsererApres(_, _)
InsererApres(t, x) ==
    IF t = <<>> THEN <<x>>
    ELSE IF CleLt(extract_num(x), extract_num(Head(t))) THEN <<x>> \o t
    ELSE <<Head(t)>> \o InsererApres(Tail(t), x)

\* the characters of the labels, in code-point order
Alphabet ==
    <<" ", "0", "1", "2", "3", "4", "5", "6", "7", "8", "9",
      "a", "g", "i", "l", "n", "o", "r", "s", "t">>

CodePoint(c) == CHOOSE i \in 1..Len(Alphabet) : Alphabet[i] = c

\* a < b as Python compares two str: character by character, a proper
\* prefix first
RECURSIVE StrLt(_, _)
StrLt(a, b) ==
    IF b = <<>> THEN FALSE
    ELSE IF a = <<>> THEN TRUE
    ELSE IF Head(a) = Head(b) THEN StrLt(Tail(a), Tail(b))
    ELSE CodePoint(Head(a)) < CodePoint(Head(b))

RECURSIVE InsererStr(_, _)
InsererStr(t, x) ==
    IF t = <<>> THEN <<x>>
    ELSE IF StrLt(x, Head(t)) THEN <<x>> \o t
    ELSE <<Head(t)>> \o InsererStr(Tail(t), x)

\* sorted(liste) with no key: the labels in the order of their text, as
\* pivot_table orders its columns
RECURSIVE TrierTexte(_)
TrierTexte(liste) ==
    IF liste = <<>> THEN <<>>
    ELSE InsererStr(TrierTexte(SubSeq(liste, 1, Len(liste) - 1)),
                    liste[Len(liste)])

\* Series.unique(): the first occurrence of each value, in order
RECURSIVE Unique(_)
Unique(s) ==
    IF s = <<>> THEN <<>>
    ELSE LET u == Unique(SubSeq(s, 1, Len(s) - 1))
         IN  IF \E i \in 1..Len(u) : u[i] = s[Len(s)] THEN u
             ELSE Append(u, s[Len(s)])

\* the mutant of the label sort: the key is left out, the labels compare
\* as text
TrierSansCle(liste_strings) == TrierTexte(liste_strings)

\* sorted(liste_strings, key=extract_num): Python's sort is stable
RECURSIVE trier_strings_par_numero(_)
trier_strings_par_numero(liste_strings) ==
    IF liste_strings = <<>> THEN <<>>
    ELSE InsererApres(
             trier_strings_par_numero(
                 SubSeq(liste_strings, 1, Len(liste_strings) - 1)),
             liste_strings[Len(liste_strings)])

(***************************************************************************)
(* State of one run of the script on the "PERFORMANCE" expander, per       *)
(* inverter ("Etude par onduleur"), and of the views that order labels.    *)
(***************************************************************************)
VARIABLES
    pc,                 \* position of the run in the script
    df_puissance,       \* traiter_fichier_onduleur(fichier_onduleur), in W
    df_carac,           \* traiter_fichier_carac(fichier_carac)
    date_debut,         \* the "Date de debut" widget
    date_fin,           \* the "Date de fin" widget
    df_resultats,       \* one row per merged string: energy, capacity, ratio
    categories_triees,  \* the category order handed to a chart or a table
    top3,               \* "Top 3 - Strings plus performants"
    flop3,              \* "Bottom 3 - Strings moins performants"
    alertes,            \* the rows of "Analyse des strings suspects"
    erreur,             \* the exception that ended the run, "" when none
    vue,                \* the view that set categories_triees
    liste_strings,      \* the labels a view holds before it orders them
    df_mensuel,         \* energy per string and per month (line 952)
    df_irradiance,      \* traiter_fichier_irradiance(fichier_irradiance)
    df_merged,          \* merge_asof of the power times and the irradiance
    puissances_theoriques,          \* per aligned time and string, in kW
    puissances_theoriques_moyenne,  \* per string, and "total"
    energies_theoriques,            \* per string, and "total", in kWh
    energies_reelles,               \* per column of the inverter file
    puissances_reelles_moyenne,     \* per column of the inverter file, in kW
    onglet,                     \* the page picked in the sidebar
    fichiers_onduleurs,         \* st.session_state.fichiers_onduleurs
    fichiers_caracteristiques,  \* st.session_state.fichiers_caracteristiques
    fichier_irradiance,         \* st.session_state.fichier_irradiance
    messages,                   \* what the last run of the script showed
    calculs,                    \* the inverters an analysis has computed on
    rapport,            \* the call of generer_word and the document it made
    precedent,          \* the tables of the earlier runs of the session
    lecture             \* a file handed to lire_fichier and what came of it

\* the state of the global study ("ETUDE GLOBALE")
vars_etude == <<df_irradiance, df_merged, puissances_theoriques,
                puissances_theoriques_moyenne, energies_theoriques,
                energies_reelles, puissances_reelles_moyenne>>

\* the state of the session: pages and uploaded files
vars_session == <<onglet, fichiers_onduleurs, fichiers_caracteristiques,
                  fichier_irradiance, messages, calculs>>

\* the state of the per-inverter performance analysis and of the views
vars_perf == <<pc, df_puissance, df_carac, date_debut, date_fin,
               df_resultats, categories_triees, top3, flop3, alertes,
               erreur, vue, liste_strings>>

\* the report, the earlier runs and the file reader
vars_rapport == <<rapport, precedent, lecture>>

vars == <<vars_perf, df_mensuel, vars_etude, vars_session, vars_rapport>>

(***************************************************************************)
(* Inputs.                                                                 *)
(***************************************************************************)
\* powers of a string in one sample, in W
PowerVals == {0, 6000, 12000}

\* (unit power in kWc, panel count) of a characteristics row
SpecA == [puissance_unitaire |-> F(3, 10), nombre_pv |-> F(2, 1)]

SpecB == [puissance_unitaire |-> F(3, 5), nombre_pv |-> F(1, 1)]

SpecZ == [puissance_unitaire |-> F(3, 10), nombre_pv |-> F(0, 1)]

\* row i of the characteristics file: its panel spec, and by how much its
\* string number is off from i (0: the row of string i)
CaracChoix ==
    {[dec |-> 0, spec |-> SpecA], [dec |-> 0, spec |-> SpecB],
     [dec |-> 0, spec |-> SpecZ], [dec |-> 1, spec |-> SpecA]}

CaracRow(i, c) ==
    [string |-> i + c.dec,
     puissance_unitaire |-> c.spec.puissance_unitaire,
     nombre_pv |-> c.spec.nombre_pv]

\* an inverter table of one sample, on day 1
UnSample(ws) ==
    <<[time |-> [jour |-> 1, minute |-> 0],
       w |-> [i \in 1..Len(ws) |-> F(ws[i], 1)]]>>

NbStrings == IF df_puissance = <<>> THEN 0 ELSE Len(df_puissance[1].w)

(***************************************************************************)
(* Lines 792-824: date filter, energy per string, merge with the           *)
(* characteristics, ratio, category order of the ratio chart.              *)
(***************************************************************************)
\* a time the parsing could not read (pd.to_datetime, errors="coerce")
NaT == [jour |-> -1, minute |-> -1]

EstNaT(t) == t.jour < 0

\* the mutant of the filter: the end date is left out
DansDatesFinExclue(row, debut, fin) ==
    /\ ~EstNaT(row.time)
    /\ row.time.jour >= debut
    /\ row.time.jour < fin

\* the mutant of the filter: the bounds are compared with the timestamp,
\* so that the end date stops at midnight
DansDatesHeure(row, debut, fin) ==
    /\ ~EstNaT(row.time)
    /\ row.time.jour >= debut
    /\ \/ row.time.jour < fin
       \/ row.time.jour = fin /\ row.time.minute = 0

\* df["time"].dt.date >= debut and df["time"].dt.date <= fin: the calendar
\* date of the timestamp is compared; a NaT compares False
DansDates(row, debut, fin) ==
    /\ ~EstNaT(row.time)
    /\ row.time.jour >= debut
    /\ row.time.jour <= fin

\* df[(df["time"].dt.date >= debut) & (df["time"].dt.date <= fin)]
FiltreDates(df, debut, fin) ==
    LET Garde(row) == DansDates(row, debut, fin)
    IN  SelectSeq(df, Garde)

DansPeriode(row) == DansDates(row, date_debut, date_fin)

df_filtre == SelectSeq(df_puissance, DansPeriode)

\* line 774: W -> kW
EnKW(w) == FDiv(w, F(1000, 1))

\* the mutant of the energy: the step is taken as one hour
EnergieSurHeure(df, i) ==
    FSum([r \in 1..Len(df) |-> EnKW(df[r].w[i])])

\* lines 806-807: kW * (10/60) h, summed over the rows of df
EnergieSur(df, i) ==
    FSum([r \in 1..Len(df) |-> FMul(EnKW(df[r].w[i]), F(10, 60))])

EnergieTotale(i) == EnergieSur(df_filtre, i)

\* the mutant of the installed capacity: the two columns are added
PuissanceInstalleeSomme(c) == FAdd(c.puissance_unitaire, c.nombre_pv)

\* line 802: df_carac["puissance unitaire"] * df_carac["nombre pv"]
PuissanceInstallee(c) == FMul(c.puissance_unitaire, c.nombre_pv)

LigneResultat(i, cap) ==
    [string |-> i,
     energie |-> EnergieTotale(i),
     puissance_installee |-> cap,
     ratio |-> FDiv(EnergieTotale(i), cap)]

\* line 816, how="left": string i once per characteristics row that bears
\* its number, in the file's order; once with a missing capacity when no
\* row does
LignesDe(i) ==
    LET EstDe(c) == c.string = i
        m == SelectSeq(df_carac, EstDe)
    IN  IF m = <<>> THEN <<LigneResultat(i, NaN)>>
        ELSE [k \in 1..Len(m) |-> LigneResultat(i, PuissanceInstallee(m[k]))]

RECURSIVE Fusion(_)
Fusion(n) == IF n = 0 THEN <<>> ELSE Fusion(n - 1) \o LignesDe(n)

Labels(rows) == [k \in 1..Len(rows) |-> StringLabel(rows[k].string)]

\* no exception, and the exception raised at a line of src/app.py
SansErreur == [exc |-> "", ligne |-> 0]

Leve(exc, ligne) == [exc |-> exc, ligne |-> ligne]

SansDoublon(s) == \A i, j \in 1..Len(s) : s[i] = s[j] => i = j

\* the mutant of the date check: no window is refused
DatesJamaisInversees(debut, fin) == FALSE

\* lines 551, 788 and 1095: date_fin < date_debut
DatesInversees(debut, fin) == fin < debut

CalculRatios ==
    /\ pc = "perf"
    /\ IF DatesInversees(date_debut, date_fin)
       THEN \* lines 788-790: st.error, then st.stop() ends the run
            /\ pc' = "stop"
            /\ UNCHANGED <<df_resultats, categories_triees, erreur, vue>>
       ELSE IF df_filtre = <<>>
       THEN \* line 798: nothing is computed for an empty window
            /\ pc' = "fin"
            /\ UNCHANGED <<df_resultats, categories_triees, erreur, vue>>
       ELSE \E res \in {Fusion(NbStrings)} :
            \E cats \in {trier_strings_par_numero(Labels(res))} :
                /\ df_resultats' = res
                /\ IF SansDoublon(cats)
                   THEN /\ categories_triees' = cats
                        /\ vue' = "ratio"
                        /\ erreur' = SansErreur
                        /\ pc' = "ratios"
                   ELSE \* line 824: pd.Categorical refuses categories
                        \* that are not unique
                        /\ erreur' = Leve("ValueError", 824)
                        /\ pc' = "erreur"
                        /\ UNCHANGED <<categories_triees, vue>>
    /\ UNCHANGED <<df_puissance, df_carac, date_debut, date_fin, top3, flop3,
                   alertes, liste_strings>>
    /\ UNCHANGED <<df_mensuel, vars_etude, vars_session, vars_rapport>>

(***************************************************************************)
(* Lines 842-851: the two sorts and the top 3 / bottom 3 tables.           *)
(***************************************************************************)
\* a may stand before b in a sort of the ratios
Ordonne(a, b, ascending) == IF ascending THEN FLe(a, b) ELSE FLe(b, a)

EstManquant(row) == IsNaN(row.ratio)

\* the mutant of the sort: the rows are left in the order of the file
SansTri(rows, ascending) == {rows}

\* sort_values("ratio kWh/kWc", ascending=...): the default kind is
\* quicksort, which is not stable, so rows of equal ratio may come out in
\* any order; rows with a missing ratio go last (na_position="last"), in
\* their original order
TrisPossibles(rows, ascending) ==
    LET D == {i \in 1..Len(rows) : ~EstManquant(rows[i])}
        k == Cardinality(D)
        perms == {p \in [1..k -> D] :
                    /\ \A a, b \in 1..k : p[a] = p[b] => a = b
                    /\ \A j \in 1..(k - 1) :
                          Ordonne(rows[p[j]].ratio, rows[p[j + 1]].ratio,
                                  ascending)}
    IN  {[j \in 1..k |-> rows[p[j]]] \o SelectSeq(rows, EstManquant) :
            p \in perms}

Min(a, b) == IF a < b THEN a ELSE b

\* lines 847-848: min(3, len(df_trie))
NTop(n) == Min(3, n)

\* DataFrame.head(n)
Tete(s, n) == SubSeq(s, 1, Min(n, Len(s)))

Classement ==
    /\ pc = "ratios"
    /\ top3' \in {Tete(s, NTop(Len(s))) : s \in TrisPossibles(df_resultats, FALSE)}
    /\ flop3' \in {Tete(s, NTop(Len(s))) : s \in TrisPossibles(df_resultats, TRUE)}
    /\ pc' = "classement"
    /\ UNCHANGED <<df_puissance, df_carac, date_debut, date_fin, df_resultats,
                   categories_triees, alertes, erreur, vue, liste_strings>>
    /\ UNCHANGED <<df_mensuel, vars_etude, vars_session, vars_rapport>>

(***************************************************************************)
(* Lines 872-934: the strings below the global mean, their comparable      *)
(* strings, the threshold and the alert rows.                              *)
(***************************************************************************)
\* line 872: k = 1.5
K == F(3, 2)

Ratios(rows) == [i \in 1..Len(rows) |-> rows[i].ratio]

\* line 876: df_resultats["ratio kWh/kWc"].mean()
MoyenneGlobale(rows) == FMean(Ratios(rows))

\* line 879: the rows whose ratio is < the global mean, in table order
StringsSousMoyenne(rows) ==
    LET moyenne_globale == MoyenneGlobale(rows)
        Sous(r) == FLt(r.ratio, moyenne_globale)
    IN  SelectSeq(rows, Sous)

\* == on two float64 cells: never true of a NaN
FEq(x, y) == ~IsNaN(x) /\ ~IsNaN(y) /\ x = y

\* line 887: the characteristics rows of the tested string
CaracDe(string_test) ==
    LET EstDe(c) == c.string = string_test
    IN  SelectSeq(df_carac, EstDe)

\* the mutant of the search: the tested string is not left out
StringsComparablesAvecSoi(string_test) ==
    LET carac_test == CaracDe(string_test)[1]
        Comparable(c) ==
            /\ FEq(c.nombre_pv, carac_test.nombre_pv)
            /\ FEq(c.puissance_unitaire, carac_test.puissance_unitaire)
        m == SelectSeq(df_carac, Comparable)
    IN  [i \in 1..Len(m) |-> m[i].string]

\* lines 892-896: the numbers of the other rows of df_carac with the same
\* panel count and the same unit power
StringsComparables(string_test) ==
    LET carac_test == CaracDe(string_test)[1]
        Comparable(c) ==
            /\ c.string # string_test
            /\ FEq(c.nombre_pv, carac_test.nombre_pv)
            /\ FEq(c.puissance_unitaire, carac_test.puissance_unitaire)
        m == SelectSeq(df_carac, Comparable)
    IN  [i \in 1..Len(m) |-> m[i].string]

\* line 900: the ratios of the rows of df_resultats whose label is the
\* label of a comparable string; an empty Series when there is none
RatiosComparables(string_test) ==
    LET sc == StringsComparables(string_test)
        labels == {StringLabel(sc[i]) : i \in 1..Len(sc)}
        Retenu(r) == StringLabel(r.string) \in labels
    IN  Ratios(SelectSeq(df_resultats, Retenu))

\* line 910: ratio_test < moyenne - k * ecart_type, the standard deviation
\* given by its square.  A NaN or infinite deviation makes the threshold
\* NaN or -inf, and the comparison False.
SousSeuil(ratio_test, moyenne, variance) ==
    LET d == FSub(moyenne, ratio_test)
    IN  /\ IsFinite(variance)
        /\ FLt(F(0, 1), d)
        /\ FLt(FMul(FMul(K, K), variance), FMul(d, d))

\* the mutant of the deviation: the distance is divided by the ratio
EcartPctSurRatio(ratio_test, moyenne) ==
    FMul(FDiv(FAbs(FSub(moyenne, ratio_test)), ratio_test), F(100, 1))

\* line 913: np.abs(moyenne - ratio_test) / moyenne * 100
EcartPct(ratio_test, moyenne) ==
    FMul(FDiv(FAbs(FSub(moyenne, ratio_test)), moyenne), F(100, 1))

\* line 920: f"{ecart_pct:.2f}" of a float: the nearest number with two
\* decimals (a tie goes to the even one), given in hundredths; "inf",
\* "-inf" or "nan" for a value that is not finite
Format2f(x) ==
    IF IsNaN(x) THEN [txt |-> "nan", centiemes |-> 0]
    ELSE IF x.d = 0 THEN [txt |-> "inf", centiemes |-> x.n]
    ELSE LET q == (100 * x.n) \div x.d
             r == (100 * x.n) % x.d
         IN  [txt |-> "nombre",
              centiemes |-> IF 2 * r > x.d THEN q + 1
                            ELSE IF 2 * r < x.d THEN q
                            ELSE q + (q % 2)]

\* lines 903-922 for a string that has comparable ratios
AlerteDe(row) ==
    LET rc == RatiosComparables(row.string)
        moyenne == FMean(rc)
        variance == FVar(rc)
    IN  [String |-> StringLabel(row.string),
         Ecart |-> Format2f(EcartPct(row.ratio, moyenne)),
         Message |-> IF SousSeuil(row.ratio, moyenne, variance)
                     THEN "Anormal" ELSE "Acceptable"]

\* lines 882-922: the loop over the strings below the mean.  It stops at
\* the first exception: iloc[0] on no characteristics row (IndexError), or
\* the format f"{ecart_pct:.2f}" applied to the text "-" that stands for
\* the deviation of a string with no comparable ratio (ValueError).
\* The exception the iteration on row raises, SansErreur when it appends
\* its alert.
ErreurDe(row) ==
    IF CaracDe(row.string) = <<>> THEN Leve("IndexError", 887)
    ELSE IF RatiosComparables(row.string) = <<>> THEN Leve("ValueError", 920)
    ELSE SansErreur

\* the mutant of the loop: alertes is emptied at each iteration, and only
\* the alert of the last string is left
BoucleDerniereAlerte(rows) ==
    LET leve == {i \in 1..Len(rows) : ErreurDe(rows[i]) # SansErreur}
        fin == IF leve = {} THEN Len(rows) + 1
               ELSE CHOOSE i \in leve : \A j \in leve : i <= j
    IN  [alertes |-> IF fin = 1 THEN <<>> ELSE <<AlerteDe(rows[fin - 1])>>,
         erreur |-> IF leve = {} THEN SansErreur ELSE ErreurDe(rows[fin])]

\* the alerts appended before the first iteration that raises, and what it
\* raises
BoucleAlertes(rows) ==
    LET leve == {i \in 1..Len(rows) : ErreurDe(rows[i]) # SansErreur}
        fin == IF leve = {} THEN Len(rows) + 1
               ELSE CHOOSE i \in leve : \A j \in leve : i <= j
    IN  [alertes |-> [i \in 1..(fin - 1) |-> AlerteDe(rows[i])],
         erreur |-> IF leve = {} THEN SansErreur ELSE ErreurDe(rows[fin])]

AnalyseSuspects ==
    /\ pc = "classement"
    /\ \E sous \in {StringsSousMoyenne(df_resultats)} :
       \E res \in {BoucleAlertes(sous)} :
           /\ alertes' = res.alertes
           /\ erreur' = res.erreur
           /\ pc' = IF res.erreur = SansErreur THEN "alertes" ELSE "erreur"
    /\ UNCHANGED <<df_puissance, df_carac, date_debut, date_fin, df_resultats,
                   categories_triees, top3, flop3, vue, liste_strings>>
    /\ UNCHANGED <<df_mensuel, vars_etude, vars_session, vars_rapport>>

\* the loop over the strings below the mean ended without an exception
BoucleFinie ==
    \/ pc \in {"alertes", "mensuel"}
    \/ pc = "erreur" /\ erreur.ligne = 968

\* lines 927-934: the alert table is shown once the loop is over, when it
\* has a row
AlertesAffichees == IF BoucleFinie THEN alertes ELSE <<>>

(***************************************************************************)
(* Lines 939-968: the monthly evolution.                                   *)
(***************************************************************************)
\* the mutant of the grouping: a bucket per day
JourDe(t) == t.jour

\* line 945: dt.to_period("M"), the year-month of a timestamp; in the
\* model's calendar a month is JoursParMois days long
MoisDe(t) == ((t.jour - 1) \div JoursParMois) + 1

\* line 952: groupby("year_month")[colonnes_strings].sum(): one row per
\* year-month that has a sample, in ascending order, the energy of each
\* string summed over the samples of that month (NaN cells skipped)
GroupeParMois(df, n) ==
    LET mois == {MoisDe(df[r].time) : r \in 1..Len(df)}
        ordre == CHOOSE s \in [1..Cardinality(mois) -> mois] :
                     \A a, b \in 1..Cardinality(mois) : a < b => s[a] < s[b]
        Du(m) == LET Dans(row) == MoisDe(row.time) = m
                 IN  SelectSeq(df, Dans)
    IN  [k \in 1..Cardinality(mois) |->
            [year_month |-> ordre[k],
             e |-> [i \in 1..n |-> EnergieSur(Du(ordre[k]), i)]]]

\* lines 955-966: the strings that have a characteristics row, the only
\* ones a monthly ratio is computed for
StringsAvecCarac(n) == {i \in 1..n : CaracDe(i) # <<>>}

\* lines 941-968: the window is filtered again, the energies are summed per
\* month, and pd.concat raises ValueError when no string has a
\* characteristics row (ratios_mensuels is empty)
EvolutionMensuelle ==
    /\ pc = "alertes"
    /\ \E df \in {FiltreDates(df_puissance, date_debut, date_fin)} :
          df_mensuel' = GroupeParMois(df, NbStrings)
    /\ IF StringsAvecCarac(NbStrings) = {}
       THEN /\ erreur' = Leve("ValueError", 968)
            /\ pc' = "erreur"
       ELSE /\ pc' = "mensuel"
            /\ UNCHANGED erreur
    /\ UNCHANGED <<df_puissance, df_carac, date_debut, date_fin, df_resultats,
                   categories_triees, top3, flop3, alertes, vue,
                   liste_strings>>
    /\ UNCHANGED <<vars_etude, vars_session, vars_rapport>>

(***************************************************************************)
(* Lines 518-595: the global study of an inverter ("ETUDE GLOBALE").       *)
(***************************************************************************)
\* a timestamp in minutes
Minutes(t) == t.jour * 1440 + t.minute

\* merge_asof, direction="backward": the last row of right whose time is
\* at or before t, 0 when there is none
asof_backward(t, right) ==
    LET avant == {k \in 1..Len(right) :
                     Minutes(right[k].time) <= Minutes(t)}
    IN  IF avant = {} THEN 0
        ELSE CHOOSE k \in avant : \A j \in avant : j <= k

\* merge_asof, direction="forward": the first row of right whose time is
\* at or after t, 0 when there is none
asof_forward(t, right) ==
    LET apres == {k \in 1..Len(right) :
                     Minutes(right[k].time) >= Minutes(t)}
    IN  IF apres = {} THEN 0
        ELSE CHOOSE k \in apres : \A j \in apres : k <= j

\* merge_asof, direction="nearest": of the backward and the forward row
\* the one with the smaller difference, the backward one when they tie
asof_nearest(t, right) ==
    LET b == asof_backward(t, right)
        f == asof_forward(t, right)
    IN  IF b # 0 /\ f # 0
        THEN IF Minutes(t) - Minutes(right[b].time) <=
                    Minutes(right[f].time) - Minutes(t)
             THEN b ELSE f
        ELSE IF b # 0 THEN b ELSE f

\* lines 568-573: pd.merge_asof(left[["time"]], right, on="time",
\* direction="nearest"): one row per row of left, the irradiance missing
\* when right has no row
merge_asof(left, right) ==
    [k \in 1..Len(left) |->
        [time |-> left[k].time,
         irradiance |->
             LET j == asof_nearest(left[k].time, right)
             IN  IF j = 0 THEN NaN ELSE right[j].irradiance]]

\* int(x) of a float: the fraction is dropped
IntDe(x) == F(Sign(x.n) * (Abs(x.n) \div x.d), 1)

\* the mutant of the theoretical power: no loss coefficient
PuissanceTheoriqueSansPertes(irradiance, c) ==
    FMul(FMul(irradiance, IntDe(c.nombre_pv)), c.puissance_unitaire)

\* line 581: df_merged["irradiance"] * n_pv * unitaire * 0.8
PuissanceTheorique(irradiance, c) ==
    FMul(FMul(FMul(irradiance, IntDe(c.nombre_pv)), c.puissance_unitaire),
         F(8, 10))

\* lines 577-580: the first characteristics row whose int() raises (a cell
\* that was not read is NaN), 0 when there is none
LigneIllisible ==
    LET nan == {k \in 1..Len(df_carac) : IsNaN(df_carac[k].nombre_pv)}
    IN  IF nan = {} THEN 0
        ELSE CHOOSE k \in nan : \A j \in nan : k <= j

\* lines 575-581: the loop over the rows of the characteristics: a column
\* "string s" per string number, at the place of its first row and with the
\* values of its last row
ColonnesTheoriques(rows, merged) ==
    LET premiers == {k \in 1..Len(rows) :
                        \A j \in 1..(k - 1) : rows[j].string # rows[k].string}
        ordre == CHOOSE s \in [1..Cardinality(premiers) -> premiers] :
                     \A a, b \in 1..Cardinality(premiers) :
                         a < b => s[a] < s[b]
        Dernier(s) == CHOOSE k \in 1..Len(rows) :
                          /\ rows[k].string = s
                          /\ \A j \in (k + 1)..Len(rows) : rows[j].string # s
    IN  [c \in 1..Cardinality(premiers) |->
            [string |-> rows[ordre[c]].string,
             p |-> [k \in 1..Len(merged) |->
                       PuissanceTheorique(merged[k].irradiance,
                                          rows[Dernier(rows[ordre[c]].string)])]]]

\* lines 593-595: reindex(index_communs): the strings that are a column of
\* the inverter file and of the theoretical table, sorted (the numbers of
\* the model have one digit, so that the order of the texts is theirs)
IndexCommuns(n, colonnes) ==
    LET communs == {s \in 1..n :
                       \E c \in 1..Len(colonnes) : colonnes[c].string = s}
    IN  CHOOSE s \in [1..Cardinality(communs) -> communs] :
            \A a, b \in 1..Cardinality(communs) : a < b => s[a] < s[b]

\* line 565 and line 594: the mean power in kW of the columns of the
\* inverter file that index_communs holds, and of "total"
MoyennesReelles(df, index) ==
    [par_string |->
         [c \in 1..Len(index) |->
             [string |-> index[c],
              v |-> FMean([r \in 1..Len(df) |-> EnKW(df[r].w[index[c]])])]],
     total |-> FMean([r \in 1..Len(df) |-> EnKW(df[r].total)])]

\* lines 583-584 and line 595: the mean of each theoretical column and
\* their sum as "total", then the columns that index_communs holds
MoyennesTheoriques(colonnes, index) ==
    [par_string |->
         [c \in 1..Len(index) |->
             [string |-> index[c],
              v |-> FMean(colonnes[CHOOSE k \in 1..Len(colonnes) :
                                      colonnes[k].string = index[c]].p)]],
     total |-> FSum([c \in 1..Len(colonnes) |-> FMean(colonnes[c].p)])]

\* line 587: the energy in kWh of each column of the inverter file
EnergiesReelles(df, n) ==
    [par_string |-> [i \in 1..n |-> EnergieSur(df, i)],
     total |-> FSum([r \in 1..Len(df) |->
                        FMul(EnKW(df[r].total), F(10, 60))])]

\* lines 588-589: the energy in kWh of each theoretical column and their
\* sum as "total"
EnergiesTheoriques(colonnes) ==
    LET e == [c \in 1..Len(colonnes) |->
                 [string |-> colonnes[c].string,
                  v |-> FMul(FSum(colonnes[c].p), F(10, 60))]]
    IN  [par_string |-> e,
         total |-> FSum([c \in 1..Len(e) |-> e[c].v])]

\* lines 555-595: the window of the two files, the real powers, the
\* alignment of the irradiance on the power times, the theoretical powers,
\* the means and the energies; int() of a characteristics cell that was not
\* read raises ValueError and ends the run
EtudeGlobale ==
    /\ pc = "etude"
    /\ IF DatesInversees(date_debut, date_fin)
       THEN \* lines 551-553: st.error, then st.stop() ends the run
            /\ pc' = "stop"
            /\ UNCHANGED <<df_merged, puissances_theoriques,
                           puissances_theoriques_moyenne, energies_theoriques,
                           energies_reelles, puissances_reelles_moyenne,
                           erreur>>
       ELSE
       \E df \in {FiltreDates(df_puissance, date_debut, date_fin)} :
       \E merged \in {merge_asof(df, FiltreDates(df_irradiance,
                                                 date_debut, date_fin))} :
          /\ df_merged' = merged
          /\ IF LigneIllisible # 0
             THEN /\ puissances_theoriques' =
                         ColonnesTheoriques(
                             SubSeq(df_carac, 1, LigneIllisible - 1), merged)
                  /\ erreur' = Leve("ValueError", 580)
                  /\ pc' = "erreur"
                  /\ puissances_reelles_moyenne' =
                         MoyennesReelles(df, [i \in 1..NbStrings |-> i])
                  /\ UNCHANGED <<puissances_theoriques_moyenne,
                                 energies_theoriques, energies_reelles>>
             ELSE \E colonnes \in {ColonnesTheoriques(df_carac, merged)} :
                  \E index \in {IndexCommuns(NbStrings, colonnes)} :
                      /\ puissances_theoriques' = colonnes
                      /\ puissances_reelles_moyenne' =
                             MoyennesReelles(df, index)
                      /\ puissances_theoriques_moyenne' =
                             MoyennesTheoriques(colonnes, index)
                      /\ energies_reelles' = EnergiesReelles(df, NbStrings)
                      /\ energies_theoriques' = EnergiesTheoriques(colonnes)
                      /\ pc' = "perf"
                      /\ UNCHANGED erreur
    /\ UNCHANGED <<df_puissance, df_carac, date_debut, date_fin, df_resultats,
                   categories_triees, top3, flop3, alertes, vue,
                   liste_strings, df_mensuel, df_irradiance>>
    /\ UNCHANGED <<vars_session, vars_rapport>>

(***************************************************************************)
(* The views that order labels with trier_strings_par_numero.              *)
(***************************************************************************)
\* the labels a view can hold: string columns and the "total" column
LabelIds == {1, 2, 10}

LabelUniverse == {StringLabel(i) : i \in LabelIds} \cup {TotalLabel}

SansTotal(s) == \A i \in 1..Len(s) : s[i] # TotalLabel

\* lines 718-730: power over one day; the labels are the columns the user
\* picked in the multiselect, in the order picked, "total" among them
VueEvolutionPuissance ==
    /\ pc = "vues"
    /\ SansDoublon(liste_strings)
    /\ categories_triees' = trier_strings_par_numero(Unique(liste_strings))
    /\ vue' = "evolution"
    /\ pc' = "vue_faite"
    /\ UNCHANGED <<df_puissance, df_carac, date_debut, date_fin, df_resultats,
                   top3, flop3, alertes, erreur, liste_strings>>
    /\ UNCHANGED <<df_mensuel, vars_etude, vars_session, vars_rapport>>

\* lines 1008-1019: the monthly table; pivot_table hands back its columns
\* in the order of their text, and colonnes_ordre reorders them
VueTableauMensuel ==
    /\ pc = "vues"
    /\ SansTotal(liste_strings)
    /\ categories_triees' =
           trier_strings_par_numero(TrierTexte(Unique(liste_strings)))
    /\ vue' = "mensuel"
    /\ pc' = "vue_faite"
    /\ UNCHANGED <<df_puissance, df_carac, date_debut, date_fin, df_resultats,
                   top3, flop3, alertes, erreur, liste_strings>>
    /\ UNCHANGED <<df_mensuel, vars_etude, vars_session, vars_rapport>>

\* lines 1145-1149: the comparison of inverters; the labels are those of
\* the rows of every inverter, one after the other
VueComparaison ==
    /\ pc = "vues"
    /\ SansTotal(liste_strings)
    /\ categories_triees' = trier_strings_par_numero(Unique(liste_strings))
    /\ vue' = "comparaison"
    /\ pc' = "vue_faite"
    /\ UNCHANGED <<df_puissance, df_carac, date_debut, date_fin, df_resultats,
                   top3, flop3, alertes, erreur, liste_strings>>
    /\ UNCHANGED <<df_mensuel, vars_etude, vars_session, vars_rapport>>

\* lines 1069-1149: the comparison of inverters, with the one inverter of
\* the session: the date check, then for the inverter the window, the
\* energies, the merge with the characteristics and the ratios (an empty
\* window is computed on: its energies are 0), and the category order of
\* the chart
Comparaison ==
    /\ pc = "comparaison"
    /\ IF DatesInversees(date_debut, date_fin)
       THEN \* lines 1095-1097: st.error, then st.stop() ends the run
            /\ pc' = "stop"
            /\ UNCHANGED <<df_resultats, categories_triees, vue>>
       ELSE \E res \in {Fusion(NbStrings)} :
                /\ df_resultats' = res
                /\ categories_triees' =
                       trier_strings_par_numero(Unique(Labels(res)))
                /\ vue' = "comparaison"
                /\ pc' = "comparee"
    /\ UNCHANGED <<df_puissance, df_carac, date_debut, date_fin, top3, flop3,
                   alertes, erreur, liste_strings>>
    /\ UNCHANGED <<df_mensuel, vars_etude, vars_session, vars_rapport>>

(***************************************************************************)
(* Specifications.                                                         *)
(***************************************************************************)
\* the sequences over S of length 1..n
SeqsJusqua(S, n) == UNION {[1..k -> S] : k \in 1..n}

\* an uploaded file, known by the number k of its string columns (inverter
\* file) or of its rows (characteristics file); None when not uploaded
Fichier(k) == [n |-> k]

None == [n |-> -1]

\* the session of a user on the analysis page, one inverter uploaded with
\* k string columns and l characteristics rows, and the irradiance file
SessionAnalyse(k, l) ==
    /\ onglet = "analyse"
    /\ fichiers_onduleurs = <<Fichier(k)>>
    /\ fichiers_caracteristiques = <<Fichier(l)>>
    /\ fichier_irradiance = Fichier(0)
    /\ messages = {}
    /\ calculs = {}

\* no file handed to lire_fichier
SansLecture == [nom |-> <<>>, issue |-> ""]

\* no report asked for, no earlier run, no file read
SansRapport ==
    /\ rapport = <<>>
    /\ precedent = <<>>
    /\ lecture = SansLecture

\* the global study and the monthly evolution not yet run
EtudeNonFaite ==
    /\ df_mensuel = <<>>
    /\ df_merged = <<>>
    /\ puissances_theoriques = <<>>
    /\ puissances_theoriques_moyenne = <<>>
    /\ energies_theoriques = <<>>
    /\ energies_reelles = <<>>
    /\ puissances_reelles_moyenne = <<>>

\* a run of the performance analysis alone: no irradiance is read
SansEtude == df_irradiance = <<>> /\ EtudeNonFaite

\* a run on an uploaded inverter file of n strings and a characteristics
\* file of n rows, whose row i is drawn from choix
\* (the power samples are drawn from puissances)
InitDonnees(n, puissances, choix) ==
    /\ pc = "perf"
    /\ \E ws \in [1..n -> puissances] : df_puissance = UnSample(ws)
    /\ \E cs \in [1..n -> choix] :
          df_carac = [i \in 1..n |-> CaracRow(i, cs[i])]
    /\ date_debut = 1
    /\ date_fin = 1
    /\ df_resultats = <<>>
    /\ categories_triees = <<>>
    /\ top3 = <<>>
    /\ flop3 = <<>>
    /\ alertes = <<>>
    /\ erreur = SansErreur
    /\ vue = ""
    /\ liste_strings = <<>>
    /\ SansEtude
    /\ SansRapport
    /\ SessionAnalyse(n, n)

InitRun(n, choix) == InitDonnees(n, PowerVals, choix)

\* the suspect-string analysis: any mix of panel specs, rows numbered off
\* by one (a string with no row, a number borne by two rows, a row for a
\* string the inverter file does not have)
Init == \E n \in 1..MaxStrings : InitRun(n, CaracChoix)

Next == CalculRatios \/ Classement \/ AnalyseSuspects

Spec == Init /\ [][Next]_vars

\* the ranking: one panel spec; a row is that of its string or of a string
\* the inverter file does not have
InitClassement ==
    \E n \in 1..MaxClasses :
        InitRun(n, {[dec |-> 0, spec |-> SpecA], [dec |-> n, spec |-> SpecA]})

NextClassement == CalculRatios \/ Classement

SpecClassement == InitClassement /\ [][NextClassement]_vars

\* the label orders of the views
InitTri ==
    /\ pc = "vues"
    /\ liste_strings \in SeqsJusqua(LabelUniverse, MaxLabels)
    /\ df_puissance = <<>>
    /\ df_carac = <<>>
    /\ date_debut = 1
    /\ date_fin = 1
    /\ df_resultats = <<>>
    /\ categories_triees = <<>>
    /\ top3 = <<>>
    /\ flop3 = <<>>
    /\ alertes = <<>>
    /\ erreur = SansErreur
    /\ vue = ""
    /\ SansEtude
    /\ SansRapport
    /\ SessionAnalyse(10, 10)

NextTri == VueEvolutionPuissance \/ VueTableauMensuel \/ VueComparaison

SpecTri == InitTri /\ [][NextTri]_vars

\* the worked example of the suspect analysis: strings of one panel spec
\* (0.6 kWc) whose one sample gives a ratio of 0, 1, 4 or 4.2 kWh/kWc
ExempleVals == {0, 3600, 14400, 15120}

InitExemple ==
    \E n \in 1..MaxStrings :
        InitDonnees(n, ExempleVals, {[dec |-> 0, spec |-> SpecA]})

SpecExemple == InitExemple /\ [][Next]_vars

\* the timestamps of the inverter file in the runs over several days: the
\* first and the last 10-minute step of three days
Instants == {[jour |-> j, minute |-> m] : j \in 1..3, m \in {0, 1430}}

InstantLt(a, b) ==
    a.jour < b.jour \/ (a.jour = b.jour /\ a.minute < b.minute)

\* line 93: sort_values("time"), on a set of distinct timestamps
SuiteTriee(T) ==
    CHOOSE s \in [1..Cardinality(T) -> T] :
        \A a, b \in 1..Cardinality(T) : a < b => InstantLt(s[a], s[b])

\* the cells of a string column: a power in W, or NaN for a cell that
\* pd.to_numeric(errors="coerce") could not read
CellulesPuissance == {F(6000, 1), NaN}

\* traiter_fichier_onduleur of a file of one string: its rows sorted by
\* time, the rows whose time could not be read (NaT) last
FichierPeriode(t, ws, z) ==
    [r \in 1..(Len(t) + Len(z)) |->
        [time |-> IF r <= Len(t) THEN t[r] ELSE NaT,
         w |-> <<(ws \o z)[r]>>]]

FichiersPeriode ==
    UNION {{FichierPeriode(t, ws, z) :
               ws \in [1..Len(t) -> CellulesPuissance],
               z \in {<<>>} \cup {<<c>> : c \in CellulesPuissance}} :
           t \in {SuiteTriee(T) :
                     T \in {S \in SUBSET Instants :
                               Cardinality(S) \in 1..MaxSamples}}}

\* lines 777-784: the dates the two date widgets offer, from the first to
\* the last date of the file
DatesDe(df) ==
    LET jours == {df[r].time.jour :
                     r \in {k \in 1..Len(df) : ~EstNaT(df[k].time)}}
    IN  {j \in 1..3 : /\ \E a \in jours : a <= j
                      /\ \E b \in jours : j <= b}

\* an analysis over several days: an inverter file of one string, its
\* characteristics row or that of another string, a window picked with
\* the date widgets
DonneesPeriode ==
    /\ df_puissance \in FichiersPeriode
    /\ \E c \in {[dec |-> 0, spec |-> SpecA], [dec |-> 1, spec |-> SpecA]} :
          df_carac = <<CaracRow(1, c)>>
    /\ date_debut \in DatesDe(df_puissance)
    /\ date_fin \in DatesDe(df_puissance)
    /\ df_resultats = <<>>
    /\ categories_triees = <<>>
    /\ top3 = <<>>
    /\ flop3 = <<>>
    /\ alertes = <<>>
    /\ erreur = SansErreur
    /\ vue = ""
    /\ liste_strings = <<>>
    /\ SansEtude
    /\ SansRapport
    /\ SessionAnalyse(1, 1)

InitPeriode == pc = "perf" /\ DonneesPeriode

NextPeriode ==
    CalculRatios \/ Classement \/ AnalyseSuspects \/ EvolutionMensuelle

SpecPeriode == InitPeriode /\ [][NextPeriode]_vars

(***************************************************************************)
(* The global study then the ratios, on an inverter of two strings and an  *)
(* irradiance file.                                                        *)
(***************************************************************************)
\* irradiance readings of the irradiance file
MaxReleves == 2

\* the times of the inverter file and those of the irradiance file
InstantsPuissance ==
    {[jour |-> 1, minute |-> 715], [jour |-> 1, minute |-> 1430],
     [jour |-> 2, minute |-> 715]}

InstantsIrradiance ==
    {[jour |-> 1, minute |-> 0], [jour |-> 1, minute |-> 1430],
     [jour |-> 2, minute |-> 0]}

\* traiter_fichier_onduleur of a file of two strings and its "total"
\* column: string 1 in W or unread, string 2 at 3000 W
FichiersEtude ==
    UNION {{[r \in 1..Len(t) |->
                [time |-> t[r],
                 w |-> <<ws[r], F(3000, 1)>>,
                 total |-> FSum(<<ws[r], F(3000, 1)>>)]] :
               ws \in [1..Len(t) -> CellulesPuissance]} :
           t \in {SuiteTriee(T) :
                     T \in {S \in SUBSET InstantsPuissance :
                               Cardinality(S) \in 1..MaxSamples}}}

\* the cells of the irradiance column, in kW/m2, or NaN for a cell that
\* pd.to_numeric(errors="coerce") could not read
CellulesIrradiance == {F(1, 1), F(1, 2), NaN}

\* traiter_fichier_irradiance: the readings sorted by time
IrradiancesEtude ==
    UNION {{[r \in 1..Len(t) |-> [time |-> t[r], irradiance |-> g[r]]] :
               g \in [1..Len(t) -> CellulesIrradiance]} :
           t \in {SuiteTriee(T) :
                     T \in {S \in SUBSET InstantsIrradiance :
                               Cardinality(S) \in 1..MaxReleves}}}

\* a characteristics row whose panel count could not be read
SpecIllisible == [puissance_unitaire |-> F(3, 10), nombre_pv |-> NaN]

\* three panels of 0.5 kWc
SpecC == [puissance_unitaire |-> F(1, 2), nombre_pv |-> F(3, 1)]

CaracEtude ==
    {[dec |-> 0, spec |-> SpecA], [dec |-> 0, spec |-> SpecC],
     [dec |-> 1, spec |-> SpecA], [dec |-> 0, spec |-> SpecIllisible]}

\* lines 541-548: the dates the two date widgets offer, from the later of
\* the first dates of the two files to the earlier of their last dates
DatesEtude(dfp, dfi) ==
    LET jp == {dfp[r].time.jour : r \in 1..Len(dfp)}
        ji == {dfi[r].time.jour : r \in 1..Len(dfi)}
    IN  {j \in jp \cup ji :
            /\ \E a \in jp : a <= j
            /\ \E a \in ji : a <= j
            /\ \E b \in jp : j <= b
            /\ \E b \in ji : j <= b}

InitEtude ==
    /\ pc = "etude"
    /\ df_puissance \in FichiersEtude
    /\ df_irradiance \in IrradiancesEtude
    /\ \E cs \in [1..2 -> CaracEtude] :
          df_carac = [i \in 1..2 |-> CaracRow(i, cs[i])]
    /\ date_debut \in DatesEtude(df_puissance, df_irradiance)
    /\ date_fin \in DatesEtude(df_puissance, df_irradiance)
    /\ df_resultats = <<>>
    /\ categories_triees = <<>>
    /\ top3 = <<>>
    /\ flop3 = <<>>
    /\ alertes = <<>>
    /\ erreur = SansErreur
    /\ vue = ""
    /\ liste_strings = <<>>
    /\ EtudeNonFaite
    /\ SansRapport
    /\ SessionAnalyse(2, 2)

NextEtude == EtudeGlobale \/ CalculRatios

SpecEtude == InitEtude /\ [][NextEtude]_vars

(***************************************************************************)
(* The three analysis views on a window the user picked, the end date      *)
(* before the start date or not: the global study (then the ratios), the   *)
(* per-inverter performance analysis and the comparison of inverters; the  *)
(* global study is run on files of two samples.                            *)
(***************************************************************************)
InitDates ==
    \/ /\ InitEtude
       /\ Len(df_puissance) = 2
       /\ Len(df_irradiance) = 2
    \/ /\ pc \in {"perf", "comparaison"}
       /\ DonneesPeriode

NextDates == EtudeGlobale \/ CalculRatios \/ Comparaison

SpecDates == InitDates /\ [][NextDates]_vars

(***************************************************************************)
(* Lines 298-512: the session of a user, with one inverter ("Nombre        *)
(* d'onduleurs" left at 1): the uploads, the "Valider" button and the      *)
(* pages.  A file is known by its size: Fichier(k) is an inverter file of  *)
(* k string columns or a characteristics file of k rows.  Each action is   *)
(* one run of the script; messages is what that run showed.                *)
(***************************************************************************)
\* the sizes of the files a user uploads
Tailles == {1, 2}

\* any(f is None for f in fichiers)
any_None(fichiers) == \E i \in 1..Len(fichiers) : fichiers[i] = None

\* lines 413-424: an inverter file is dropped in the uploader "Onduleur 1"
ChargerOnduleur ==
    /\ onglet = "chargement"
    /\ \E k \in Tailles : fichiers_onduleurs' = <<Fichier(k)>>
    /\ messages' = {}
    /\ UNCHANGED <<onglet, fichiers_caracteristiques, fichier_irradiance,
                   calculs>>
    /\ UNCHANGED <<vars_perf, df_mensuel, vars_etude, vars_rapport>>

\* lines 431-443: a characteristics file is dropped in its uploader
ChargerCaracteristiques ==
    /\ onglet = "chargement"
    /\ \E l \in Tailles : fichiers_caracteristiques' = <<Fichier(l)>>
    /\ messages' = {}
    /\ UNCHANGED <<onglet, fichiers_onduleurs, fichier_irradiance, calculs>>
    /\ UNCHANGED <<vars_perf, df_mensuel, vars_etude, vars_rapport>>

\* lines 449-453: the irradiance file is dropped in its uploader
ChargerIrradiance ==
    /\ onglet = "chargement"
    /\ fichier_irradiance' = Fichier(0)
    /\ messages' = {}
    /\ UNCHANGED <<onglet, fichiers_onduleurs, fichiers_caracteristiques,
                   calculs>>
    /\ UNCHANGED <<vars_perf, df_mensuel, vars_etude, vars_rapport>>

\* lines 462-501: the button "Valider".  coherence_valide is assigned in
\* the last branch only: after a missing-file message line 500 raises
\* NameError.  With the files there, lire_fichier of a list that is still
\* empty raises IndexError, which the except clause reports; the counts of
\* the two files are compared and nothing is kept of the outcome
Valider ==
    /\ onglet = "chargement"
    /\ messages' =
          IF any_None(fichiers_onduleurs)
          THEN {"onduleurs manquants", "NameError"}
          ELSE IF fichier_irradiance = None
          THEN {"irradiance manquante", "NameError"}
          ELSE IF any_None(fichiers_caracteristiques)
          THEN {"caracteristiques manquantes", "NameError"}
          ELSE IF fichiers_onduleurs = <<>> \/ fichiers_caracteristiques = <<>>
          THEN {"erreur de lecture"}
          ELSE IF fichiers_onduleurs[1].n # fichiers_caracteristiques[1].n
          THEN {"incoherence"}
          ELSE {"succes"}
    /\ UNCHANGED <<onglet, fichiers_onduleurs, fichiers_caracteristiques,
                   fichier_irradiance, calculs>>
    /\ UNCHANGED <<vars_perf, df_mensuel, vars_etude, vars_rapport>>

\* line 308: the page "Chargement des donnees" is picked in the sidebar
OuvrirChargement ==
    /\ onglet # "chargement"
    /\ onglet' = "chargement"
    /\ messages' = {}
    /\ UNCHANGED <<fichiers_onduleurs, fichiers_caracteristiques,
                   fichier_irradiance, calculs>>
    /\ UNCHANGED <<vars_perf, df_mensuel, vars_etude, vars_rapport>>

\* lines 504-540: a run of the page "Analyse & Visualisation": the guard
\* looks for a missing file only; past it the files of the inverter picked
\* in the list are read and the analysis computed on them (an empty list
\* of inverters gives no index, line 524 raises TypeError; an empty list of
\* characteristics raises IndexError at line 525)
OuvrirAnalyse ==
    /\ onglet' = "analyse"
    /\ IF \/ any_None(fichiers_onduleurs)
          \/ fichier_irradiance = None
          \/ any_None(fichiers_caracteristiques)
       THEN /\ messages' = {"fichiers manquants"}
            /\ UNCHANGED calculs
       ELSE IF fichiers_onduleurs = <<>>
       THEN /\ messages' = {"TypeError"}
            /\ UNCHANGED calculs
       ELSE IF fichiers_caracteristiques = <<>>
       THEN /\ messages' = {"IndexError"}
            /\ UNCHANGED calculs
       ELSE /\ messages' = {}
            /\ calculs' = calculs \cup
                   {[onduleur |-> 1,
                     strings |-> fichiers_onduleurs[1].n,
                     lignes |-> fichiers_caracteristiques[1].n]}
    /\ UNCHANGED <<fichiers_onduleurs, fichiers_caracteristiques,
                   fichier_irradiance>>
    /\ UNCHANGED <<vars_perf, df_mensuel, vars_etude, vars_rapport>>

\* lines 298-305: a new session, nothing uploaded, no analysis run
InitSession ==
    /\ onglet = "indications"
    /\ fichiers_onduleurs = <<>>
    /\ fichiers_caracteristiques = <<>>
    /\ fichier_irradiance = None
    /\ messages = {}
    /\ calculs = {}
    /\ pc = "session"
    /\ df_puissance = <<>>
    /\ df_carac = <<>>
    /\ date_debut = 1
    /\ date_fin = 1
    /\ df_resultats = <<>>
    /\ categories_triees = <<>>
    /\ top3 = <<>>
    /\ flop3 = <<>>
    /\ alertes = <<>>
    /\ erreur = SansErreur
    /\ vue = ""
    /\ liste_strings = <<>>
    /\ SansEtude
    /\ SansRapport

NextSession ==
    \/ ChargerOnduleur
    \/ ChargerCaracteristiques
    \/ ChargerIrradiance
    \/ Valider
    \/ OuvrirChargement
    \/ OuvrirAnalyse

SpecSession == InitSession /\ [][NextSession]_vars

(***************************************************************************)
(* Lines 47-69: lire_fichier.  A file name is the sequence of the texts    *)
(* that its dots separate: <<"data", "csv">> is "data.csv", <<"", "csv">>  *)
(* is ".csv", <<"data">> is "data".                                        *)
(***************************************************************************)
\* texts between the dots of a file name
MaxMorceaux == 3

Morceaux == {"", "data", "csv", "CSV", "Csv", "xls", "xlsx", "XLSX", "txt"}

\* the mutant of the lower-casing: the text is left as it is
SansMinuscules(m) == m

\* str.lower() of a text of Morceaux
Minuscules(m) ==
    CASE m \in {"CSV", "Csv"} -> "csv"
      [] m = "XLSX" -> "xlsx"
      [] OTHER -> m

\* os.path.splitext(nom)[1]: the last dot and what follows it, unless only
\* dots stand before that dot; <<>> is the empty extension
splitext(nom) ==
    IF \E i \in 1..(Len(nom) - 1) : nom[i] # ""
    THEN <<".", nom[Len(nom)]>>
    ELSE <<>>

\* lines 60-68: the reader the extension selects, or ValueError
lire_fichier(nom) ==
    LET ext == splitext(nom)
        extension == IF ext = <<>> THEN <<>>
                     ELSE <<".", Minuscules(ext[2])>>
    IN  IF extension \in {<<".", "xls">>, <<".", "xlsx">>} THEN "read_excel"
        ELSE IF extension = <<".", "csv">> THEN "read_csv"
        ELSE "ValueError"

\* a call of lire_fichier on the file of lecture
LireFichier ==
    /\ pc = "lecture"
    /\ lecture.issue = ""
    /\ lecture' = [lecture EXCEPT !.issue = lire_fichier(lecture.nom)]
    /\ UNCHANGED <<vars_perf, df_mensuel, vars_etude, vars_session, rapport,
                   precedent>>

\* a file of any name is about to be read
InitLecture ==
    /\ pc = "lecture"
    /\ lecture \in {[nom |-> n, issue |-> ""] :
                       n \in UNION {[1..k -> Morceaux] : k \in 1..MaxMorceaux}}
    /\ rapport = <<>>
    /\ precedent = <<>>
    /\ df_puissance = <<>>
    /\ df_carac = <<>>
    /\ date_debut = 1
    /\ date_fin = 1
    /\ df_resultats = <<>>
    /\ categories_triees = <<>>
    /\ top3 = <<>>
    /\ flop3 = <<>>
    /\ alertes = <<>>
    /\ erreur = SansErreur
    /\ vue = ""
    /\ liste_strings = <<>>
    /\ SansEtude
    /\ SessionAnalyse(0, 0)

NextLecture == LireFichier

SpecLecture == InitLecture /\ [][NextLecture]_vars

(***************************************************************************)
(* Lines 154-286 and 1027-1058: the Word report of the per-inverter        *)
(* performance analysis, and the next run of the script on the cached      *)
(* parses (lines 71-94, 771-774).                                          *)
(***************************************************************************)
\* the four inclusion flags of generer_word
Sections ==
    {"inclure_ratio", "inclure_classement", "inclure_analyse_suspect",
     "inclure_evolution"}

\* a section of the document: its heading and what is put under it
Section(titre, corps) == [titre |-> titre, corps |-> corps]

\* lines 222-286: the sections of the document in their order.  The alert
\* table is laid out through table_flop (line 268), a local that only the
\* ranking section binds (line 253): with the ranking left out and an
\* alert to print, the statement raises UnboundLocalError and no document
\* is saved.
generer_word(top3_df, flop3_df, df_alertes, inclure) ==
    LET ratio ==
            IF inclure["inclure_ratio"]
            THEN <<Section("Ratio kWh/kWc par string", <<"img_barres">>)>>
            ELSE <<>>
        classement ==
            IF inclure["inclure_classement"]
            THEN <<Section("Classement des strings", top3_df \o flop3_df)>>
            ELSE <<>>
        suspects ==
            IF inclure["inclure_analyse_suspect"]
            THEN <<Section("Analyse des strings suspects",
                           IF df_alertes # <<>> THEN df_alertes
                           ELSE <<"Aucune alerte detectee.">>)>>
            ELSE <<>>
        evolution ==
            IF inclure["inclure_evolution"]
            THEN <<Section("Evolution mensuelle", <<"img_evolution">>)>>
            ELSE <<>>
        table_flop_liee == inclure["inclure_classement"]
    IN  IF /\ inclure["inclure_analyse_suspect"]
           /\ df_alertes # <<>>
           /\ ~table_flop_liee
        THEN [document |-> <<>>, erreur |-> Leve("UnboundLocalError", 268)]
        ELSE [document |-> ratio \o classement \o suspects \o evolution,
              erreur |-> SansErreur]

\* lines 1036-1055: the button "Generer le rapport" stands after the block
\* of the analysis, outside "if fichier_onduleur and fichier_carac" (769)
\* and "if not df_filtre.empty" (798).  chart_ratio is bound at line 831,
\* inside both: on an empty window the click reads a name the run never
\* bound (NameError at line 1046) and generer_word is not called.
GenererRapport ==
    /\ pc \in {"mensuel", "fin"}
    /\ \E inclure \in [Sections -> BOOLEAN] :
       \E res \in {IF pc = "fin"
                   THEN [document |-> <<>>, erreur |-> Leve("NameError", 1046)]
                   ELSE generer_word(top3, flop3, alertes, inclure)} :
           /\ rapport' = [inclure |-> inclure,
                          document |-> res.document,
                          erreur |-> res.erreur]
           /\ erreur' = res.erreur
           /\ pc' = IF res.erreur = SansErreur THEN "rapport" ELSE "erreur"
    /\ UNCHANGED <<df_puissance, df_carac, date_debut, date_fin, df_resultats,
                   categories_triees, top3, flop3, alertes, vue,
                   liste_strings>>
    /\ UNCHANGED <<df_mensuel, vars_etude, vars_session, precedent, lecture>>

\* runs of the script that follow the first one in a session
MaxRelances == 1

\* the mutant of the cache: the run is handed the object the cache keeps,
\* which the conversion of line 774 of the run before has divided in place
MemeObjet(df) ==
    [r \in 1..Len(df) |->
        [df[r] EXCEPT !.w = [i \in 1..Len(df[r].w) |-> EnKW(df[r].w[i])]]]

\* line 71, st.cache_data: the parse of a file already seen is not redone,
\* and the run is handed a copy of the stored table, in W as it was parsed;
\* the conversion of line 774 is made on that copy
DepuisCache(df) == df

\* the run has reached its end, an exception or st.stop()
RunFini == pc \in {"mensuel", "fin", "rapport", "erreur", "stop"}

\* the ratio table and the alert table of a run
Tables == [df_resultats |-> df_resultats, alertes |-> alertes]

\* the script is run again in the same session, on the same files and the
\* same dates: the names of the run before are gone, the parses come from
\* the cache
Relancer ==
    /\ RunFini
    /\ Len(precedent) < MaxRelances
    /\ precedent' = Append(precedent, Tables)
    /\ df_puissance' = DepuisCache(df_puissance)
    /\ pc' = "perf"
    /\ df_resultats' = <<>>
    /\ categories_triees' = <<>>
    /\ top3' = <<>>
    /\ flop3' = <<>>
    /\ alertes' = <<>>
    /\ erreur' = SansErreur
    /\ vue' = ""
    /\ df_mensuel' = <<>>
    /\ rapport' = <<>>
    /\ UNCHANGED <<df_carac, date_debut, date_fin, liste_strings, lecture>>
    /\ UNCHANGED <<vars_etude, vars_session>>

\* the report: two strings on one day, or one string over several days
\* and a window that may hold no sample
InitRapport ==
    \/ InitDonnees(2, PowerVals, {[dec |-> 0, spec |-> SpecA],
                                  [dec |-> 0, spec |-> SpecB]})
    \/ InitPeriode /\ Len(df_puissance) <= 2

NextRapport ==
    \/ CalculRatios
    \/ Classement
    \/ AnalyseSuspects
    \/ EvolutionMensuelle
    \/ GenererRapport
    \/ Relancer

SpecRapport == InitRapport /\ [][NextRapport]_vars

(***************************************************************************)
(* What the claims speak of, stated apart from the operators above.        *)
(***************************************************************************)
\* the alert stage has run to its end or to its exception
ApresAlertes ==
    \/ BoucleFinie
    \/ pc = "erreur" /\ erreur.ligne \in {887, 920}

\* the two tables have been made
ApresClassement == pc = "classement" \/ ApresAlertes

\* the ratios have been computed and the run went on
ApresRatios == pc = "ratios" \/ ApresClassement

Positions(s) == 1..Len(s)

\* the global mean of the defined ratios as one fraction: their sum over
\* their number
SousLaMoyenne(row) ==
    LET def == {i \in Positions(df_resultats) :
                   ~IsNaN(df_resultats[i].ratio)}
        somme == FSum(Ratios(df_resultats))
    IN  /\ def # {}
        /\ FLt(FMul(row.ratio, F(Cardinality(def), 1)), somme)

\* string s has a characteristics row
ACarac(s) == \E k \in Positions(df_carac) : df_carac[k].string = s

\* r is a peer of string s: another string of the inverter whose
\* characteristics row has the panel count and the unit power of the row
\* of s
EstPair(r, s) ==
    /\ r.string # s
    /\ \E a, b \in Positions(df_carac) :
          /\ df_carac[a].string = s
          /\ df_carac[b].string = r.string
          /\ df_carac[a].nombre_pv = df_carac[b].nombre_pv
          /\ df_carac[a].puissance_unitaire = df_carac[b].puissance_unitaire

\* the ratios of the peers of string s
RatiosPairs(s) ==
    LET P(r) == EstPair(r, s)
    IN  Ratios(SelectSeq(df_resultats, P))

NbAlertes(s) ==
    Cardinality({k \in Positions(alertes) :
                    alertes[k].String = StringLabel(s)})

\* the row of df_resultats an alert is about
LigneAlerte(a) ==
    df_resultats[CHOOSE i \in Positions(df_resultats) :
                    StringLabel(df_resultats[i].string) = a.String]

\* the peer mean and the sum of the squared distances to it, for the
\* threshold of an alert about string s
MoyennePairs(s) ==
    LET rp == RatiosPairs(s)
    IN  FDiv(FSum(rp), F(Len(rp), 1))

CarresPairs(s) ==
    LET rp == RatiosPairs(s)
        pm == MoyennePairs(s)
    IN  FSum([i \in Positions(rp) |->
                 FMul(FSub(rp[i], pm), FSub(rp[i], pm))])

(***************************************************************************)
(* C1: once the alert stage is over, a string has an alert if and only if  *)
(* its ratio is strictly below the global mean ratio of the inverter, and  *)
(* a string below the mean has exactly one alert.                          *)
(***************************************************************************)
C1_AlerteSsiSousMoyenne ==
    ApresAlertes =>
        \A i \in Positions(df_resultats) :
            NbAlertes(df_resultats[i].string) =
                IF SousLaMoyenne(df_resultats[i]) THEN 1 ELSE 0

(***************************************************************************)
(* C2: every alert says "Anormal" exactly when the ratio of its string is  *)
(* strictly below peer mean - 1.5 x peer standard deviation, both taken    *)
(* over the peers of the string only (the string itself left out), and     *)
(* "Acceptable" otherwise.  With n peers, mean m, distance d = m - ratio   *)
(* and S the sum of the squared distances of the peers to m, the           *)
(* comparison is n >= 2, d > 0 and 9 S < 4 (n - 1) d^2.                    *)
(***************************************************************************)
C2_ClassificationSeuil ==
    \A k \in Positions(alertes) :
        LET a == alertes[k]
            row == LigneAlerte(a)
            n == Len(RatiosPairs(row.string))
            d == FSub(MoyennePairs(row.string), row.ratio)
            sous == /\ n >= 2
                    /\ FLt(F(0, 1), d)
                    /\ FLt(FMul(F(9, 1), CarresPairs(row.string)),
                           FMul(F(4 * (n - 1), 1), FMul(d, d)))
        IN  /\ n >= 1
            /\ a.Message = IF sous THEN "Anormal" ELSE "Acceptable"

\* an alert "Anormal" next to peers that are not all equal
C2_Witness ==
    /\ pc = "alertes"
    /\ \E k \in Positions(alertes) :
          /\ alertes[k].Message = "Anormal"
          /\ CarresPairs(LigneAlerte(alertes[k]).string) # F(0, 1)

(***************************************************************************)
(* C3: a string below the global mean that has no peer gets an alert that  *)
(* says there is nothing to compare it with, its deviation given as "-",   *)
(* and the alert stage ends without an exception.                          *)
(***************************************************************************)
C3_AlerteSansComparaison ==
    ApresAlertes =>
        \A i \in Positions(df_resultats) :
            LET row == df_resultats[i]
            IN  (SousLaMoyenne(row) /\ RatiosPairs(row.string) = <<>>) =>
                    /\ erreur = SansErreur
                    /\ \E k \in Positions(alertes) :
                          /\ alertes[k].String = StringLabel(row.string)
                          /\ alertes[k].Ecart.txt = "-"
                          /\ alertes[k].Message = "Pas de comparaison"

(***************************************************************************)
(* C4: the ratio of every string that has a characteristics row is its     *)
(* energy divided by its installed capacity, the unit power times the      *)
(* panel count of that row: ratio x unit power x panel count = energy.     *)
(* A capacity of zero gives the quotient of the floating-point division:   *)
(* infinite for a positive energy, NaN for no energy.                      *)
(***************************************************************************)
C4_RatioEnergieSurCapacite ==
    \A i \in Positions(df_resultats) :
        LET row == df_resultats[i]
        IN  ACarac(row.string) =>
                \E k \in Positions(df_carac) :
                    LET pu == df_carac[k].puissance_unitaire
                        nb == df_carac[k].nombre_pv
                    IN  /\ df_carac[k].string = row.string
                        /\ row.puissance_installee.n * pu.d * nb.d
                               = pu.n * nb.n * row.puissance_installee.d
                        /\ IF pu.n * nb.n # 0
                           THEN /\ IsFinite(row.ratio)
                                /\ row.ratio.n * pu.n * nb.n * row.energie.d
                                       = row.energie.n * row.ratio.d
                                             * pu.d * nb.d
                           ELSE row.ratio =
                                    [n |-> Sign(row.energie.n), d |-> 0]

\* a string of positive energy with a characteristics row, its ratio
\* computed
C4_Witness ==
    /\ pc = "ratios"
    /\ \E i \in Positions(df_resultats) :
          /\ ACarac(df_resultats[i].string)
          /\ IsFinite(df_resultats[i].ratio)
          /\ df_resultats[i].ratio.n > 0
          /\ df_resultats[i].ratio # df_resultats[i].energie

(***************************************************************************)
(* C5: a capacity that is zero or missing is signalled: the run never goes *)
(* on with a ratio that is infinite or NaN.                                *)
(***************************************************************************)
C5_CapaciteSignalee ==
    ApresRatios =>
        \A i \in Positions(df_resultats) :
            \/ IsFinite(df_resultats[i].ratio)
            \/ erreur.exc = "MissingCharacteristics"

(***************************************************************************)
(* C6: a string with no characteristics row is left out of the ranking:    *)
(* it is in neither the top table nor the bottom table.                    *)
(***************************************************************************)
C6_SansCaracHorsClassement ==
    ApresClassement =>
        /\ \A i \in Positions(top3) : ACarac(top3[i].string)
        /\ \A i \in Positions(flop3) : ACarac(flop3[i].string)

\* the place of the row of string s in table t, past its end when the row
\* is not in it
Rang(t, s) ==
    IF \E i \in Positions(t) : t[i].string = s
    THEN CHOOSE i \in Positions(t) : t[i].string = s
    ELSE Len(t) + 1

\* table t holds min(3, n) rows of df_resultats, no row twice, the rows
\* with a ratio from the best to the worst, the rows with no ratio after
\* them, and no row left out of it is better than a row in it
TableDesMeilleurs(t, Mieux(_, _)) ==
    /\ Len(t) = Min(3, NbStrings)
    /\ \A i \in Positions(t) :
          \E k \in Positions(df_resultats) : df_resultats[k] = t[i]
    /\ \A i, j \in Positions(t) :
          i < j => /\ t[i].string # t[j].string
                   /\ IsNaN(t[i].ratio) => IsNaN(t[j].ratio)
                   /\ ~Mieux(t[j].ratio, t[i].ratio)
    /\ \A k \in Positions(df_resultats) :
          Rang(t, df_resultats[k].string) > Len(t) =>
              \A i \in Positions(t) :
                  /\ ~IsNaN(df_resultats[k].ratio) => ~IsNaN(t[i].ratio)
                  /\ ~Mieux(df_resultats[k].ratio, t[i].ratio)

Superieur(x, y) == FLt(y, x)

Inferieur(x, y) == FLt(x, y)

(***************************************************************************)
(* C7: the top table holds the min(3, n) strings of highest ratio in       *)
(* descending order and the bottom table the min(3, n) strings of lowest   *)
(* ratio in ascending order, n the number of strings; with fewer than 3    *)
(* strings both hold every string.                                         *)
(***************************************************************************)
C7_TopEtFlop ==
    pc = "classement" =>
        /\ TableDesMeilleurs(top3, Superieur)
        /\ TableDesMeilleurs(flop3, Inferieur)
        /\ NbStrings < 3 =>
              \A k \in Positions(df_resultats) :
                  /\ Rang(top3, df_resultats[k].string) <= Len(top3)
                  /\ Rang(flop3, df_resultats[k].string) <= Len(flop3)

\* more than three strings, three different ratios in each table
C7_Witness ==
    /\ pc = "classement"
    /\ NbStrings > 3
    /\ Len(top3) = 3 /\ Len(flop3) = 3
    /\ FLt(top3[2].ratio, top3[1].ratio) /\ FLt(top3[3].ratio, top3[2].ratio)
    /\ FLt(flop3[1].ratio, flop3[3].ratio)

\* row a is ranked above row b in the top table
AuDessus(a, b) == Rang(top3, a.string) < Rang(top3, b.string)

\* two rows with a ratio, one of them at least in the top table
PairesClassees ==
    {p \in Positions(df_resultats) \X Positions(df_resultats) :
        /\ p[1] # p[2]
        /\ ~IsNaN(df_resultats[p[1]].ratio)
        /\ ~IsNaN(df_resultats[p[2]].ratio)
        /\ \/ Rang(top3, df_resultats[p[1]].string) <= Len(top3)
           \/ Rang(top3, df_resultats[p[2]].string) <= Len(top3)}

(***************************************************************************)
(* C8: the top ranking is a total order consistent with the ratios:        *)
(* string A is ranked above string B if and only if the ratio of A is      *)
(* greater than the ratio of B, or they are equal and A comes before B in  *)
(* the original order.                                                     *)
(***************************************************************************)
C8_OrdreStable ==
    pc = "classement" =>
        \A p \in PairesClassees :
            LET a == df_resultats[p[1]]
                b == df_resultats[p[2]]
            IN  AuDessus(a, b) <=>
                    \/ FLt(b.ratio, a.ratio)
                    \/ a.ratio = b.ratio /\ p[1] < p[2]

\* the number a label was written from
NumeroDe(label) ==
    IF \E i \in 0..99 : StringLabel(i) = label
    THEN CHOOSE i \in 0..99 : StringLabel(i) = label
    ELSE -1

\* l comes before m in the category order
Avant(l, m) ==
    \E i, j \in Positions(categories_triees) :
        i < j /\ categories_triees[i] = l /\ categories_triees[j] = m

\* the labels the category order was made from: those of the view's list,
\* or those of the rows of the ratio table
LabelsSource ==
    IF pc = "vue_faite"
    THEN {liste_strings[i] : i \in Positions(liste_strings)}
    ELSE {StringLabel(df_resultats[i].string) :
             i \in Positions(df_resultats)}

(***************************************************************************)
(* C9: the category order of every view holds each label of the view       *)
(* once, a label "string i" before a label "string j" whenever i < j, and  *)
(* a label with no number after every label with one.                      *)
(***************************************************************************)
C9_OrdreNumerique ==
    vue # "" =>
        /\ {categories_triees[i] : i \in Positions(categories_triees)}
               = LabelsSource
        /\ SansDoublon(categories_triees)
        /\ \A l, m \in LabelsSource :
              /\ (NumeroDe(l) >= 0 /\ NumeroDe(m) > NumeroDe(l))
                     => Avant(l, m)
              /\ (NumeroDe(l) >= 0 /\ NumeroDe(m) < 0) => Avant(l, m)

\* a view whose list had "string 10" before "string 2" and "total" before
\* a numbered label
C9_Witness ==
    /\ pc = "vue_faite"
    /\ \E i, j \in Positions(liste_strings) :
          /\ i < j
          /\ liste_strings[i] = StringLabel(10)
          /\ liste_strings[j] = StringLabel(2)
    /\ \E i, j \in Positions(liste_strings) :
          /\ i < j
          /\ liste_strings[i] = TotalLabel
          /\ NumeroDe(liste_strings[j]) >= 0
    /\ Avant(StringLabel(2), StringLabel(10))
    /\ Avant(StringLabel(10), TotalLabel)

\* the deviation of the alert a, times its peer mean: exact, and as the
\* alert reports it (hundredths)
EcartExactFoisMoyenne(a) ==
    LET row == LigneAlerte(a)
        pm == MoyennePairs(row.string)
    IN  FMul(F(10000, 1), FAbs(FSub(pm, row.ratio)))

EcartReporteFoisMoyenne(a) ==
    FMul(F(a.Ecart.centiemes, 1), MoyennePairs(LigneAlerte(a).string))

\* the alerts of strings whose peer mean is not zero
AlertesMoyenneNonNulle ==
    {k \in Positions(alertes) :
        /\ RatiosPairs(LigneAlerte(alertes[k]).string) # <<>>
        /\ MoyennePairs(LigneAlerte(alertes[k]).string) # F(0, 1)}

(***************************************************************************)
(* C10 as written: the deviation an alert reports is                       *)
(* |peer_mean - ratio| / peer_mean x 100, the peer mean over the ratios of *)
(* the peers.                                                              *)
(***************************************************************************)
C10_EcartExact ==
    \A k \in AlertesMoyenneNonNulle :
        /\ alertes[k].Ecart.txt = "nombre"
        /\ EcartReporteFoisMoyenne(alertes[k])
               = EcartExactFoisMoyenne(alertes[k])

(***************************************************************************)
(* C10 amended: the deviation an alert reports is                          *)
(* |peer_mean - ratio| / peer_mean x 100 rounded to two decimals: it is    *)
(* within half a hundredth of it.  When the peer mean is 0 the alert       *)
(* reports "inf", or "nan" if the ratio is 0 too.                          *)
(***************************************************************************)
C10_EcartArrondi ==
    \A k \in Positions(alertes) :
        LET a == alertes[k]
            row == LigneAlerte(a)
            pm == MoyennePairs(row.string)
        IN  /\ RatiosPairs(row.string) # <<>>
            /\ IF pm = F(0, 1)
               THEN a.Ecart.txt =
                        IF row.ratio = F(0, 1) THEN "nan" ELSE "inf"
               ELSE /\ a.Ecart.txt = "nombre"
                    /\ FLe(FMul(F(2, 1),
                                FAbs(FSub(EcartReporteFoisMoyenne(a),
                                          EcartExactFoisMoyenne(a)))),
                           FAbs(pm))

\* an alert whose deviation has more than two decimals
C10_Witness ==
    /\ pc = "alertes"
    /\ \E k \in AlertesMoyenneNonNulle :
          /\ alertes[k].Ecart.txt = "nombre"
          /\ alertes[k].Ecart.centiemes > 0
          /\ EcartReporteFoisMoyenne(alertes[k])
                 # EcartExactFoisMoyenne(alertes[k])

\* what the detector says of string s: the messages of its rows in the
\* alert table shown, none when the table has no row for it
IssueDe(s) ==
    {AlertesAffichees[k].Message :
        k \in {m \in Positions(AlertesAffichees) :
                  AlertesAffichees[m].String = StringLabel(s)}}

\* two rows of df_resultats for strings of one panel spec and one ratio
PairesJumelles ==
    {p \in Positions(df_resultats) \X Positions(df_resultats) :
        /\ EstPair(df_resultats[p[2]], df_resultats[p[1]].string)
        /\ ~IsNaN(df_resultats[p[1]].ratio)
        /\ df_resultats[p[1]].ratio = df_resultats[p[2]].ratio}

(***************************************************************************)
(* C11: two strings of one inverter with the same panel count, the same    *)
(* unit power and the same ratio get the same outcome in the alert table:  *)
(* no row for either, or a row for each with the same message.             *)
(***************************************************************************)
C11_IssueSymetrique ==
    \A p \in PairesJumelles :
        IssueDe(df_resultats[p[1]].string) = IssueDe(df_resultats[p[2]].string)

\* two such strings below the mean, each with its row in the table
C11_Witness ==
    /\ pc = "alertes"
    /\ \E p \in PairesJumelles :
          /\ IssueDe(df_resultats[p[1]].string) # {}
          /\ IssueDe(df_resultats[p[2]].string) # {}
          /\ Len(alertes) = 2

\* three strings of ratios 4.0, 4.2 and 1.0
TroisRatiosExemple ==
    Ratios(df_resultats) = <<F(4, 1), F(42, 10), F(1, 1)>>

(***************************************************************************)
(* C12: with three strings of one panel spec and ratios 4.0, 4.2 and 1.0   *)
(* the global mean is 46/15 (about 3.07), only string 3 is below it and    *)
(* alerted, its comparable ratios are those of strings 1 and 2, of mean    *)
(* 4.1 and sample variance 0.02 (deviation about 0.141, threshold about    *)
(* 3.89), its message is "Anormal" and its deviation is reported as 75.61. *)
(***************************************************************************)
C12_Exemple ==
    (ApresAlertes /\ TroisRatiosExemple) =>
        /\ pc = "alertes"
        /\ MoyenneGlobale(df_resultats) = F(46, 15)
        /\ StringsSousMoyenne(df_resultats) = <<df_resultats[3]>>
        /\ RatiosComparables(3) = <<F(4, 1), F(42, 10)>>
        /\ FMean(RatiosComparables(3)) = F(41, 10)
        /\ FVar(RatiosComparables(3)) = F(2, 100)
        /\ alertes = <<[String |-> StringLabel(3),
                        Ecart |-> [txt |-> "nombre", centiemes |-> 7561],
                        Message |-> "Anormal"]>>

\* the example, its alert stage over
C12_Witness ==
    /\ pc = "alertes"
    /\ TroisRatiosExemple
    /\ \A i \in Positions(df_resultats) :
          EstPair(df_resultats[i], 1) \/ df_resultats[i].string = 1

\* the energy of string i over the dates a..b, as the pipeline computes it
EnergieFenetre(i, a, b) == EnergieSur(FiltreDates(df_puissance, a, b), i)

\* the strings of the rows of df_resultats
StringsResultats == {df_resultats[k].string : k \in Positions(df_resultats)}

\* the energy the run computed for string i
EnergieCalculee(i) ==
    df_resultats[CHOOSE k \in Positions(df_resultats) :
                    df_resultats[k].string = i].energie

(***************************************************************************)
(* C14 as written: for dates t0 <= t1 <= t2 the energy of each string over *)
(* [t0, t2] is its energy over [t0, t1] plus its energy over [t1, t2],     *)
(* each range selected with the date filter of the pipeline.               *)
(***************************************************************************)
C14_Additif ==
    ApresRatios =>
        \A i \in StringsResultats : \A t1 \in date_debut..date_fin :
            EnergieCalculee(i) =
                FAdd(EnergieFenetre(i, date_debut, t1),
                     EnergieFenetre(i, t1, date_fin))

(***************************************************************************)
(* C14 amended: the date filter keeps both of its bounds, so the day t1 is *)
(* in both ranges: the energy over [t0, t2] is the energy over [t0, t1]    *)
(* plus the energy over [t1 + 1 day, t2], and the energies over [t0, t1]   *)
(* and [t1, t2] add up to the energy over [t0, t2] plus that of day t1.    *)
(***************************************************************************)
C14_AdditifDisjoint ==
    ApresRatios =>
        \A i \in StringsResultats : \A t1 \in date_debut..date_fin :
            /\ EnergieCalculee(i) =
                   FAdd(EnergieFenetre(i, date_debut, t1),
                        EnergieFenetre(i, t1 + 1, date_fin))
            /\ FAdd(EnergieCalculee(i), EnergieFenetre(i, t1, t1)) =
                   FAdd(EnergieFenetre(i, date_debut, t1),
                        EnergieFenetre(i, t1, date_fin))

\* a window cut at a day that has energy, with energy after it
C14_Witness ==
    /\ pc = "ratios"
    /\ \E i \in StringsResultats : \E t1 \in date_debut..date_fin :
          /\ t1 < date_fin
          /\ EnergieFenetre(i, t1, t1) # F(0, 1)
          /\ EnergieFenetre(i, t1 + 1, date_fin) # F(0, 1)
          /\ EnergieCalculee(i) # EnergieFenetre(i, date_debut, t1)

\* the energy of string i summed over the samples r of the file that
\* satisfy Retenu: W / 1000 * 10 / 60 each, the unread cells left out
SommeEnergie(i, Retenu(_)) ==
    FSum([r \in Positions(df_puissance) |->
             IF Retenu(r) THEN FDiv(df_puissance[r].w[i], F(6000, 1))
             ELSE NaN])

\* the calendar date of sample r is within the window
DansFenetre(r) == df_puissance[r].time.jour \in date_debut..date_fin

(***************************************************************************)
(* C16: the date filter keeps a sample if and only if the calendar date of *)
(* its timestamp is between the start date and the end date, both          *)
(* included, whatever its time of day; the energies of the run are those   *)
(* of exactly these samples.                                               *)
(***************************************************************************)
C16_FiltreInclusif ==
    ApresRatios =>
        \E garde \in {FiltreDates(df_puissance, date_debut, date_fin)} :
            /\ \A r \in Positions(df_puissance) :
                  (\E k \in Positions(garde) : garde[k] = df_puissance[r])
                      <=> DansFenetre(r)
            /\ Len(garde) =
                  Cardinality({r \in Positions(df_puissance) : DansFenetre(r)})
            /\ \A i \in StringsResultats :
                  EnergieCalculee(i) = SommeEnergie(i, DansFenetre)

\* a sample late on the end date is kept and counts, another date is dropped
C16_Witness ==
    /\ pc = "ratios"
    /\ \E r, q \in Positions(df_puissance) :
          /\ df_puissance[r].time.jour = date_fin
          /\ df_puissance[r].time.minute > 0
          /\ ~IsNaN(df_puissance[r].w[1])
          /\ ~EstNaT(df_puissance[q].time)
          /\ ~DansFenetre(q)
          /\ ~IsNaN(df_puissance[q].w[1])
    /\ EnergieCalculee(1) # F(0, 1)

\* the year-month of sample r: the m-th month holds the days
\* (m - 1) * JoursParMois + 1 .. m * JoursParMois
MoisCalendaire(r) ==
    CHOOSE m \in Positions(df_puissance) \cup 1..MaxSamples :
        df_puissance[r].time.jour \in
            ((m - 1) * JoursParMois + 1)..(m * JoursParMois)

\* the monthly table has been made
ApresMensuel ==
    \/ pc = "mensuel"
    \/ pc = "erreur" /\ erreur.ligne = 968

\* the samples of the window
Fenetre == {r \in Positions(df_puissance) : DansFenetre(r)}

(***************************************************************************)
(* C17: the monthly table has one row per year-month of the samples of the *)
(* window, the energy of a string in a row is the sum of its energy over   *)
(* the samples of the window of that year-month, each sample of the window *)
(* is in exactly one row, and for each string the monthly energies add up  *)
(* to its energy over the window.                                          *)
(***************************************************************************)
C17_Mensuel ==
    ApresMensuel =>
        /\ {df_mensuel[k].year_month : k \in Positions(df_mensuel)} =
               {MoisCalendaire(r) : r \in Fenetre}
        /\ \A r \in Fenetre :
              Cardinality({k \in Positions(df_mensuel) :
                  df_mensuel[k].year_month = MoisCalendaire(r)}) = 1
        /\ \A k \in Positions(df_mensuel) : \A i \in StringsResultats :
              LET DuMois(r) ==
                      /\ DansFenetre(r)
                      /\ MoisCalendaire(r) = df_mensuel[k].year_month
              IN  df_mensuel[k].e[i] = SommeEnergie(i, DuMois)
        /\ \A i \in StringsResultats :
              FSum([k \in Positions(df_mensuel) |-> df_mensuel[k].e[i]]) =
                  EnergieCalculee(i)

\* a window over two months, with energy in each
C17_Witness ==
    /\ pc = "mensuel"
    /\ Len(df_mensuel) = 2
    /\ \A k \in Positions(df_mensuel) : df_mensuel[k].e[1] # F(0, 1)
    /\ EnergieCalculee(1) # df_mensuel[1].e[1]

\* the global study has aligned the irradiance on the power times
ApresAlignement == df_irradiance # <<>> /\ pc # "etude"

\* the global study went to its end
ApresEtude == df_irradiance # <<>> /\ pc \in {"perf", "ratios", "fin"}

\* the distance in minutes between two timestamps
Distance(a, b) == Abs(Minutes(a) - Minutes(b))

\* reading j of the uploaded irradiance series is the closest to time t,
\* the earlier one of two readings at the same distance
PlusProche(j, t) ==
    \A i \in Positions(df_irradiance) :
        \/ Distance(df_irradiance[j].time, t) <
               Distance(df_irradiance[i].time, t)
        \/ /\ Distance(df_irradiance[j].time, t) =
                  Distance(df_irradiance[i].time, t)
           /\ Minutes(df_irradiance[j].time) <= Minutes(df_irradiance[i].time)

(***************************************************************************)
(* C13: the alignment gives every power timestamp of the window exactly    *)
(* one irradiance value, that of the reading of the uploaded irradiance    *)
(* series whose timestamp is the closest to it, the earlier reading when   *)
(* two are at the same distance.                                           *)
(***************************************************************************)
C13_PlusProcheReleve ==
    ApresAlignement =>
        /\ Len(df_merged) = Cardinality(Fenetre)
        /\ \A k \in Positions(df_merged) :
              /\ \E r \in Fenetre : df_puissance[r].time = df_merged[k].time
              /\ \E j \in Positions(df_irradiance) :
                    /\ PlusProche(j, df_merged[k].time)
                    /\ df_merged[k].irradiance = df_irradiance[j].irradiance

(***************************************************************************)
(* C15: the energy of a string over the window is the sum over the samples *)
(* of the window of its power in kW (W / 1000) times 10/60 h, in the       *)
(* global study and in the performance analysis.                           *)
(***************************************************************************)
C15_EnergieDixMinutes ==
    /\ ApresEtude =>
          \A i \in 1..NbStrings :
              energies_reelles.par_string[i] = SommeEnergie(i, DansFenetre)
    /\ ApresRatios =>
          \A i \in StringsResultats :
              EnergieCalculee(i) = SommeEnergie(i, DansFenetre)

\* both analyses have run on a window of several samples that have power
C15_Witness ==
    /\ ApresEtude
    /\ pc = "ratios"
    /\ Cardinality(Fenetre) >= 2
    /\ energies_reelles.par_string[1] = F(2, 1)
    /\ EnergieCalculee(1) = F(2, 1)
    /\ EnergieCalculee(2) = F(1, 1)

\* the characteristics rows that bear string number s
LignesCarac(s) == {k \in Positions(df_carac) : df_carac[k].string = s}

(***************************************************************************)
(* C18: for every string of the characteristics table and every aligned    *)
(* timestamp the theoretical power is irradiance x panel count x unit      *)
(* power x 0.8 (with the row of the string; its last row when the table    *)
(* has several for it), and the theoretical "total", mean power and        *)
(* energy, is the sum of the theoretical values of the strings.            *)
(***************************************************************************)
C18_PuissanceTheorique ==
    ApresEtude =>
        /\ {puissances_theoriques[c].string :
                c \in Positions(puissances_theoriques)} =
               {df_carac[k].string : k \in Positions(df_carac)}
        /\ \A c \in Positions(puissances_theoriques) :
           \E l \in LignesCarac(puissances_theoriques[c].string) :
              /\ \A m \in LignesCarac(puissances_theoriques[c].string) : m <= l
              /\ Len(puissances_theoriques[c].p) = Len(df_merged)
              /\ \A k \in Positions(df_merged) :
                    puissances_theoriques[c].p[k] =
                        FMul(df_merged[k].irradiance,
                             FMul(df_carac[l].nombre_pv,
                                  FMul(df_carac[l].puissance_unitaire,
                                       F(4, 5))))
        /\ puissances_theoriques_moyenne.total =
               FSum([c \in Positions(puissances_theoriques) |->
                        FMean(puissances_theoriques[c].p)])
        /\ energies_theoriques.total =
               FSum([c \in Positions(puissances_theoriques) |->
                        FMul(FSum(puissances_theoriques[c].p), F(1, 6))])
        /\ \A c \in Positions(energies_theoriques.par_string) :
              energies_theoriques.par_string[c].v =
                  FMul(FSum(puissances_theoriques[c].p), F(1, 6))

\* two strings of different specs under a read irradiance: two theoretical
\* columns and a total that is neither of them
C18_Witness ==
    /\ ApresEtude
    /\ Len(puissances_theoriques) = 2
    /\ Len(df_merged) >= 2
    /\ \A k \in Positions(df_merged) : ~IsNaN(df_merged[k].irradiance)
    /\ puissances_theoriques[1].p[1] # puissances_theoriques[2].p[1]
    /\ \A c \in Positions(energies_theoriques.par_string) :
          /\ energies_theoriques.par_string[c].v # F(0, 1)
          /\ energies_theoriques.par_string[c].v # energies_theoriques.total

(***************************************************************************)
(* C19: a cell that could not be read is a missing value and the run still *)
(* goes to its end: no later stage raises because of it, and the sums and  *)
(* the means are those of the cells that were read.                        *)
(***************************************************************************)
C19_CelluleManquante ==
    /\ ApresAlignement /\ pc = "erreur" => erreur.ligne # 580
    /\ ApresEtude =>
          \A c \in Positions(puissances_reelles_moyenne.par_string) :
              LET s == puissances_reelles_moyenne.par_string[c].string
                  lus == {r \in Fenetre : ~IsNaN(df_puissance[r].w[s])}
              IN  /\ energies_reelles.par_string[s] = SommeEnergie(s, DansFenetre)
                  /\ lus # {} =>
                        FMul(puissances_reelles_moyenne.par_string[c].v,
                             F(Cardinality(lus), 1)) =
                            FMul(SommeEnergie(s, DansFenetre), F(6, 1))

\* the inverter file and its characteristics file are there and their
\* counts differ
Incoherents ==
    /\ fichiers_onduleurs # <<>>
    /\ fichiers_caracteristiques # <<>>
    /\ fichiers_onduleurs[1].n # fichiers_caracteristiques[1].n

(***************************************************************************)
(* C20: when the number of string columns of an inverter file differs from *)
(* the number of rows of its characteristics file, no analysis is computed *)
(* on the data of that inverter, and a run of the analysis page on such    *)
(* files reports the mismatch, whatever the uploads, validations and page  *)
(* changes before.                                                         *)
(***************************************************************************)
C20_IncoherenceBloquante ==
    /\ \A c \in calculs : c.strings = c.lignes
    /\ onglet = "analyse" /\ Incoherents /\ fichier_irradiance # None =>
          "incoherence" \in messages

\* the irradiance file, the file of the declared inverter and its
\* characteristics file have been supplied
TousFournis ==
    /\ fichier_irradiance # None
    /\ Len(fichiers_onduleurs) = 1
    /\ fichiers_onduleurs[1] # None
    /\ Len(fichiers_caracteristiques) = 1
    /\ fichiers_caracteristiques[1] # None

(***************************************************************************)
(* C21: in every state of a session the analysis page is entered (its run  *)
(* gets past the missing-file message) only if the irradiance file, the    *)
(* file of every declared inverter and the characteristics file of every   *)
(* inverter have been supplied.                                            *)
(***************************************************************************)
C21_EntreeAvecFichiers ==
    onglet = "analyse" /\ "fichiers manquants" \notin messages => TousFournis

(***************************************************************************)
(* C27: a click on "Valider" ends with exactly one outcome and never with  *)
(* an unhandled error, and the success message is shown only when all the  *)
(* files are there and the string count of the inverter equals the row     *)
(* count of its characteristics.                                           *)
(***************************************************************************)
C27_ValiderSansErreur ==
    /\ "NameError" \notin messages
    /\ Cardinality(messages) <= 1
    /\ "succes" \in messages => TousFournis /\ ~Incoherents

(***************************************************************************)
(* C26: a string below the mean that has exactly one peer ratio is         *)
(* classified "Acceptable", never "Anormal", however far below the peer    *)
(* its ratio is.                                                           *)
(***************************************************************************)
C26_UnSeulPair ==
    \A k \in Positions(alertes) :
        Len(RatiosPairs(LigneAlerte(alertes[k]).string)) = 1 =>
            alertes[k].Message = "Acceptable"

\* a string that produced nothing next to its only peer, which produced
C26_Witness ==
    /\ pc = "alertes"
    /\ \E k \in Positions(alertes) :
          LET row == LigneAlerte(alertes[k])
          IN  /\ Len(RatiosPairs(row.string)) = 1
              /\ row.ratio = F(0, 1)
              /\ FLt(F(1, 1), RatiosPairs(row.string)[1])
              /\ alertes[k].Message = "Acceptable"

\* the text after the last dot of the name read, when the name has an
\* extension: a dot that is not one of the leading dots of the name
ADesExtension ==
    /\ Len(lecture.nom) >= 2
    /\ \E i \in 1..(Len(lecture.nom) - 1) : lecture.nom[i] # ""

DernierMorceau == lecture.nom[Len(lecture.nom)]

RienCalcule ==
    /\ df_resultats = <<>>
    /\ categories_triees = <<>>
    /\ top3 = <<>>
    /\ flop3 = <<>>
    /\ alertes = <<>>
    /\ df_mensuel = <<>>
    /\ df_merged = <<>>
    /\ puissances_theoriques = <<>>
    /\ energies_reelles = <<>>
    /\ energies_theoriques = <<>>

(***************************************************************************)
(* C22: in the global study, the per-inverter performance analysis and the *)
(* comparison of inverters, when the end date is before the start date the *)
(* run is halted at the date check (the error is shown, st.stop() called)  *)
(* and no filtering, ratio, ranking or alert result is computed; a run is  *)
(* halted there in that case only.                                         *)
(***************************************************************************)
C22_ArretDates ==
    /\ pc = "stop" => date_fin < date_debut
    /\ date_fin < date_debut =>
          /\ pc \in {"etude", "perf", "comparaison", "stop"}
          /\ RienCalcule

\* a run halted at the date check, on a file with samples on both dates
C22_Witness ==
    /\ pc = "stop"
    /\ date_fin < date_debut
    /\ \E r, q \in Positions(df_puissance) :
          /\ df_puissance[r].time.jour = date_debut
          /\ df_puissance[q].time.jour = date_fin

\* the document has a section under the heading of a flag
TitreDe(s) ==
    CASE s = "inclure_ratio" -> "Ratio kWh/kWc par string"
      [] s = "inclure_classement" -> "Classement des strings"
      [] s = "inclure_analyse_suspect" -> "Analyse des strings suspects"
      [] s = "inclure_evolution" -> "Evolution mensuelle"

Contient(document, s) ==
    \E k \in 1..Len(document) : document[k].titre = TitreDe(s)

\* generer_word has been called
WordAppele == rapport # <<>> /\ rapport.erreur.ligne # 1046

(***************************************************************************)
(* C24: whatever the four inclusion flags and whether the alert table is   *)
(* empty or not, a call of generer_word produces a document, and the       *)
(* document has the section of a flag if and only if that flag is true.    *)
(***************************************************************************)
C24_SectionsIndependantes ==
    WordAppele =>
        /\ rapport.erreur = SansErreur
        /\ \A s \in Sections :
              Contient(rapport.document, s) <=> rapport.inclure[s]

(***************************************************************************)
(* C28: when "Generer le rapport" has been clicked, the ratio table, the   *)
(* rankings and the monthly table behind the charts and tables handed to   *)
(* generer_word were computed earlier in that run, and the click read no   *)
(* name the run had not bound.                                             *)
(***************************************************************************)
C28_RapportApresCalcul ==
    rapport # <<>> =>
        /\ rapport.erreur.exc # "NameError"
        /\ vue = "ratio"
        /\ df_resultats # <<>>
        /\ top3 # <<>>
        /\ flop3 # <<>>
        /\ df_mensuel # <<>>

====
